---------------------------- MODULE Spec2Model ----------------------------
(***************************************************************************)
(* A model of ModulIO.py: the host side of a serial device-control link.   *)
(*                                                                         *)
(* The state is the module's globals (the registry device_dict /           *)
(* names_in_order, the three queues, the events, the worker handles), the  *)
(* locals and position of each worker thread (sender, receiver, recorder)  *)
(* and of each caller thread, and the environment: the two directions of   *)
(* the serial link and the peer's device array.                            *)
(*                                                                         *)
(* Python indices are 0-based and kept so; names_in_order[i] of the source *)
(* is names_in_order[i + 1] here.                                          *)
(***************************************************************************)
EXTENDS Integers, Sequences, FiniteSets, TLC

\* ------------------------------------------------------------------------
\* Program constants (ModulIO.py lines 138, 149-151, 168)
MAX_DEVICES == 10

PRIORITY_MAXSIZE == 10

SEND_MAXSIZE == 100

RECV_MAXSIZE == 1

\* SENDING_DEADLINE = 1, in seconds
SENDING_DEADLINE == 1

\* ticks of now in a second
TicksPerSecond == 2

DEFAULT_DATA_STREAM_PERIOD == 5000

\* ------------------------------------------------------------------------
\* Bounds of the model
\* caller operations started in one behaviour
MaxCalls == 2

\* create_device / remove_device calls in one behaviour of SpecReg
MaxRegCalls == 4

\* set_value / change_data_stream_period calls in one behaviour of SpecQueue
MaxQueueCalls == 3

\* lines lost or late in one behaviour of SpecQueue
MaxQueueLoss == 1

\* start_recording / stop_recording calls in one behaviour of SpecRec
MaxRecCalls == 4

\* telemetry rows recorded in one behaviour
MaxRows == 2

\* tokens of a telemetry line in SpecData
MaxTokens == 3

\* create_device / remove_device calls in one behaviour of SpecCap
MaxCapCalls == 2

\* change_data_stream_period calls in one behaviour of SpecLive
MaxLiveCalls == 2

\* echoes that arrive after the send deadline in one behaviour of SpecLive
MaxLiveLate == 1

\* caller operations in one behaviour of SpecVal
MaxValCalls == 3

\* caller operations in one behaviour of SpecSet
MaxSetCalls == 3

\* caller operations in one behaviour of SpecBusy
MaxBusyCalls == 3

\* caller operations in one behaviour of SpecRows
MaxRowCalls == 4

\* create_device calls in one behaviour of SpecErr
MaxErrCalls == 2

\* echoes late or damaged in one behaviour of SpecAck
MaxAckLate == 2

\* ticks of now in one behaviour of SpecAck
MaxAckTicks == 6

\* disconnect / connect calls in one behaviour of SpecConn
MaxConnCalls == 2

\* frames lost in one behaviour of SpecConn
MaxConnLoss == 1

\* start_recording / disconnect calls in one behaviour of SpecDisc
MaxDiscCalls == 2

\* devices registered before any connection in an initial state of SpecDisc
MaxIdleDevices == 2

\* SpecQueue: the sender starts an iteration while a queue is at most this
\* short of full
MaxDrain == 2

\* set_value / change_data_stream_period calls in one behaviour of SpecPrio
MaxPrioCalls == 3

\* lines lost or late in one behaviour of SpecPrio
MaxPrioLoss == 1

\* frames and lines lost, damaged or late in one behaviour
MaxLoss == 1

\* frames in flight towards the peer / lines in flight towards the host
MaxWireOut == 1

MaxWireIn == 2

\* ------------------------------------------------------------------------
\* Text: a string is a sequence of one-character strings.

Names == {"a", "b"}

None == "None"

Ord(ch) ==
    CASE ch = " " -> 32
      [] ch = "0" -> 48 [] ch = "1" -> 49 [] ch = "2" -> 50 [] ch = "3" -> 51
      [] ch = "4" -> 52 [] ch = "5" -> 53 [] ch = "6" -> 54 [] ch = "7" -> 55
      [] ch = "8" -> 56 [] ch = "9" -> 57
      [] ch = "a" -> 97 [] ch = "b" -> 98 [] ch = "c" -> 99 [] ch = "d" -> 100
      [] ch = "l" -> 108 [] ch = "m" -> 109 [] ch = "p" -> 112
      [] ch = "r" -> 114 [] ch = "s" -> 115 [] ch = "t" -> 116
      [] ch = "u" -> 117 [] ch = "x" -> 120 [] ch = "z" -> 122

DigitChar(d) ==
    CASE d = 0 -> "0" [] d = 1 -> "1" [] d = 2 -> "2" [] d = 3 -> "3"
      [] d = 4 -> "4" [] d = 5 -> "5" [] d = 6 -> "6" [] d = 7 -> "7"
      [] d = 8 -> "8" [] d = 9 -> "9" [] d = 10 -> "A" [] d = 11 -> "B"
      [] d = 12 -> "C" [] d = 13 -> "D" [] d = 14 -> "E" [] d = 15 -> "F"

\* str(n) for n >= 0
RECURSIVE Str(_)
Str(n) == IF n < 10 THEN <<DigitChar(n)>> ELSE Str(n \div 10) \o <<DigitChar(n % 10)>>

\* ------------------------------------------------------------------------
\* crcmod.predefined.mkCrcFun('crc-8'): polynomial 0x07, initial value 0,
\* not reflected, no final xor; one byte at a time, eight shifts a byte.

RECURSIVE BitXor(_, _)
BitXor(a, b) ==
    IF a = 0 THEN b
    ELSE IF b = 0 THEN a
    ELSE (((a % 2) + (b % 2)) % 2) + (2 * BitXor(a \div 2, b \div 2))

\* x ^ 0x07 for an even x
Xor7(x) ==
    x + 1 + (IF (x \div 2) % 2 = 1 THEN -2 ELSE 2) + (IF (x \div 4) % 2 = 1 THEN -4 ELSE 4)

CrcShift(c) ==
    IF c >= 128 THEN Xor7((c * 2) % 256) ELSE (c * 2) % 256

\* the value of a one-element set; it makes an intermediate result a value
\* that is computed once
Only(S) == CHOOSE y \in S : TRUE

\* n shifts of the register
RECURSIVE CrcShifts(_, _)
CrcShifts(c, n) ==
    IF n = 0 THEN c ELSE Only({CrcShift(x) : x \in {CrcShifts(c, n - 1)}})

CrcByte(c, byte) == CrcShifts(BitXor(c, byte), 8)

RECURSIVE crc8(_)
crc8(text) ==
    IF text = <<>> THEN 0
    ELSE Only({CrcByte(c, Ord(text[Len(text)])) : c \in {crc8(SubSeq(text, 1, Len(text) - 1))}})

\* f"{checksum:02X}"
ChecksumHex(checksum) == <<DigitChar(checksum \div 16), DigitChar(checksum % 16)>>

\* ------------------------------------------------------------------------
\* Commands.  A command is the string handed to _serial_write; it is kept as
\* the values formatted into it, and Encode gives the string itself.

Cmd(verb, char, name, num, val) ==
    [verb |-> verb, char |-> char, name |-> name, num |-> num, val |-> val]

\* f"s {char} {name} {pin_str}" (line 58)
CreateCmd(char, name, pin) == Cmd("s", char, name, pin, 0)

\* f"r {idx}" (line 386)
RemoveCmd(idx) == Cmd("r", "", "", idx, 0)

\* f"c {self.index} {value}" (line 94)
SetCmd(idx, value) == Cmd("c", "", "", idx, value)

\* f"u {delay}" (line 423)
PeriodCmd(delay) == Cmd("u", "", "", delay, 0)

\* "t 1" / "t 0" (lines 483, 493)
StreamCmd(on) == Cmd("t", "", "", on, 0)

\* "z 1" (line 273)
UserModeCmd(on) == Cmd("z", "", "", on, 0)

Encode(c) ==
    CASE c.verb = "s" -> <<"s", " ", c.char, " ", c.name, " ">> \o Str(c.num)
      [] c.verb = "c" -> <<"c", " ">> \o Str(c.num) \o <<" ">> \o Str(c.val)
      [] OTHER -> <<c.verb, " ">> \o Str(c.num)

NoCmd == Cmd("", "", "", 0, 0)

\* A frame on the wire: "<CKSUM>; <command>\r\n" (line 636)
Frame(cksum, c) == [cksum |-> cksum, cmd |-> c]

\* A line towards the host: its 5-character tag, and what follows "xxxx: ".
\* The body of a Recv line is text; the body of a Data line is the list of its
\* whitespace-separated tokens, term telling whether the line ends with ";".
Line(tag, body, term) == [tag |-> tag, body |-> body, term |-> term]

\* data[6:].split(";")[0] (line 566)
RECURSIVE BeforeSemicolon(_)
BeforeSemicolon(text) ==
    IF text = <<>> \/ Head(text) = ";" THEN <<>>
    ELSE <<Head(text)>> \o BeforeSemicolon(Tail(text))

\* recv[0:2] (line 663)
FirstTwo(text) == SubSeq(text, 1, IF Len(text) < 2 THEN Len(text) ELSE 2)

\* a comparison of the first character only
AckMatchesFirst(cksum, recv) == Head(cksum) = Head(recv)

\* checksum_hex == arduino_checksum_hex (lines 663-666)
AckMatches(cksum, recv) == cksum = FirstTwo(recv)

\* ------------------------------------------------------------------------
VARIABLES
    device_dict,            \* name -> [index, value] (the Device instance)
    names_in_order,         \* names in order of indexes
    priority_send_queue,    \* queue.Queue(maxsize=10)
    send_queue,             \* queue.Queue(maxsize=100)
    recv_queue,             \* queue.Queue(maxsize=1)
    conf_event,             \* threading.Event
    send_pc,                \* position of the _send_serial thread
    command,                \* _send_serial: command
    priority,               \* _send_serial: priority
    checksum_hex,           \* _send_serial: checksum_hex
    confirmed,              \* _send_serial: confirmed
    deadline,               \* _send_serial: deadline, in ticks of now
    get_until,              \* _send_serial: when the pending recv_queue.get gives up
    stop_send_event,
    thread_send_serial,
    other_sender,           \* a _send_serial thread left running by a join that
                            \* timed out: its position and its locals
    recv_pc,                \* position of the _receive_serial thread
    recv_item,              \* _receive_serial: the item of a pending put
    datalist,               \* _update_data: the list it was last called with
    stop_receive_event,
    thread_receive_serial,
    rec_pc,                 \* position of each _record_data_to_csv thread
    rec_file,               \* the rows each recorder wrote, header first
    stop_record_event,
    thread_record_data,
    recording_queue,        \* queue.Queue()
    now,                    \* datetime.now(), one tick a recorded row
    ser,                    \* None | "open" | "closed"
    data_stream_period,
    data_stream_active,
    call_pc,                \* position of each caller thread
    call_op,                \* the call each caller thread is in, with its locals
    call_ret,               \* how each caller thread's last call ended
    wire_out,               \* frames written and not yet read by the peer
    wire_in,                \* lines written by the peer and not yet read
    peer_devices,           \* the peer's device array
    detached,               \* Device instances removed from device_dict
    tracing,                \* history: whether enq_log / sent_log are kept
    created,                \* history: names created and not removed since
    calls,                  \* history: caller operations started
    losses,                 \* history: frames and lines lost or garbled
    enq_log,                \* history: commands in the order they were enqueued
    sent_log,               \* history: first transmissions, with what was seen
    seen_at_check,          \* history: Len(enq_log) at the sender's urgent check
    pending_at_stop         \* history: rows buffered when a stop was signalled

reg == <<device_dict, names_in_order, detached>>

queues == <<priority_send_queue, send_queue>>

sender == <<send_pc, command, priority, checksum_hex, confirmed, deadline, get_until>>

receiver == <<recv_pc, recv_item, datalist>>

workers == <<stop_send_event, thread_send_serial, stop_receive_event, thread_receive_serial,
             other_sender>>

recorder == <<rec_pc, rec_file, stop_record_event, thread_record_data, recording_queue,
             now>>

session == <<ser, data_stream_period, data_stream_active>>

callers == <<call_pc, call_op, call_ret>>

link == <<wire_out, wire_in>>

history == <<calls, losses, tracing, enq_log, sent_log, seen_at_check, pending_at_stop,
            created>>

vars == <<reg, queues, recv_queue, conf_event, sender, receiver, workers, recorder,
          session, callers, link, peer_devices, history>>


\* ------------------------------------------------------------------------
\* Queue and dictionary primitives

\* queue.Queue.full()
Full(q, maxsize) == Len(q) >= maxsize

\* list.pop(idx), idx 0-based and in range
Pop(order, idx) == SubSeq(order, 1, idx) \o SubSeq(order, idx + 2, Len(order))

\* Device(...) as create_device stores it (lines 48-66, 350)
Device(name, index) == [name |-> name, index |-> index, value |-> None]

\* device_dict[name] = device (line 350)
DictSet(dict, name, device) ==
    [k \in DOMAIN dict \cup {name} |-> IF k = name THEN device ELSE dict[k]]

\* del device_dict[name] (line 389)
DictDel(dict, name) == [k \in DOMAIN dict \ {name} |-> dict[k]]

\* a renumbering that leaves the index as it was
SetIndexKept(dict, name, new_idx) == dict

\* a reindexing that puts a fresh instance in the device's place
SetIndexFresh(dict, name, new_idx) == DictSet(dict, name, Device(name, new_idx))

\* Device._set_index (lines 132-133)
SetIndex(dict, name, new_idx) == [dict EXCEPT ![name].index = new_idx]

\* Device._update (lines 117-118)
Update(dict, name, value) == [dict EXCEPT ![name].value = value]

\* history: the commands enqueued, in order
LogEnq(c) == IF tracing THEN Append(enq_log, c) ELSE enq_log

\* ------------------------------------------------------------------------
\* _send_serial (lines 607-685)

\* the position and the locals of a _send_serial thread; named: whether
\* thread_send_serial refers to it
SenderState(pc, c, prio, cksum, conf, dl, until, named) ==
    [pc |-> pc, command |-> c, priority |-> prio, checksum_hex |-> cksum,
     confirmed |-> conf, deadline |-> dl, get_until |-> until, named |-> named]

\* no such thread
NoSender == SenderState("none", NoCmd, FALSE, <<>>, FALSE, 0, 0, FALSE)

\* the thread whose steps the _send_serial actions take
ThisSender ==
    SenderState(send_pc, command, priority, checksum_hex, confirmed, deadline, get_until,
                ~other_sender.named)

\* Thread.is_alive() of a _send_serial thread
SenderAlive(s) == s.pc \notin {"none", "exited", "crashed"}

\* the thread thread_send_serial refers to
NamedSender == IF other_sender.named THEN other_sender ELSE ThisSender

\* the _send_serial actions take the steps of the other thread from here on
SenderSwitch ==
    /\ SenderAlive(other_sender)
    /\ other_sender' = ThisSender
    /\ send_pc' = other_sender.pc
    /\ command' = other_sender.command
    /\ priority' = other_sender.priority
    /\ checksum_hex' = other_sender.checksum_hex
    /\ confirmed' = other_sender.confirmed
    /\ deadline' = other_sender.deadline
    /\ get_until' = other_sender.get_until
    /\ UNCHANGED <<reg, queues, recv_queue, conf_event, receiver, stop_send_event,
                   thread_send_serial, stop_receive_event, thread_receive_serial,
                   recorder, session, callers, link, peer_devices, history>>

\* line 612: the loop condition
SendLoop ==
    /\ send_pc = "loop"
    /\ UNCHANGED <<deadline, get_until>>
    /\ send_pc' = IF \/ ~stop_send_event
                     \/ send_queue # <<>>
                     \/ priority_send_queue # <<>>
                  THEN "drain" ELSE "exited"
    /\ UNCHANGED <<reg, queues, recv_queue, conf_event, command, priority, checksum_hex,
                   confirmed, receiver, workers, recorder, session, callers, link,
                   peer_devices, history>>

\* lines 614-617: a stale entry of the ack slot is dropped
SendDrain ==
    /\ send_pc = "drain"
    /\ UNCHANGED <<deadline, get_until>>
    /\ recv_queue' = IF recv_queue # <<>> THEN Tail(recv_queue) ELSE recv_queue
    /\ priority' = FALSE
    /\ send_pc' = "get_priority"
    /\ UNCHANGED <<reg, queues, conf_event, command, checksum_hex, confirmed, receiver,
                   workers, recorder, session, callers, link, peer_devices, history>>

\* a sender that looks at the normal queue first
SendGetNormalFirst ==
    /\ send_pc = "get_priority"
    /\ UNCHANGED <<deadline, get_until>>
    /\ seen_at_check' = Len(enq_log)
    /\ IF priority_send_queue # <<>> /\ send_queue = <<>>
       THEN /\ command' = Head(priority_send_queue)
            /\ priority_send_queue' = Tail(priority_send_queue)
            /\ priority' = TRUE
            /\ conf_event' = FALSE
            /\ send_pc' = "write"
       ELSE /\ send_pc' = "get_normal"
            /\ UNCHANGED <<command, priority_send_queue, priority, conf_event>>
    /\ UNCHANGED <<reg, send_queue, recv_queue, checksum_hex, confirmed, receiver,
                   workers, recorder, session, callers, link, peer_devices, calls,
                   losses, tracing, enq_log, sent_log, pending_at_stop, created>>

\* lines 621-624: the urgent queue is looked at first
SendGetPriority ==
    /\ send_pc = "get_priority"
    /\ UNCHANGED <<deadline, get_until>>
    /\ seen_at_check' = Len(enq_log)
    /\ IF priority_send_queue # <<>>
       THEN /\ command' = Head(priority_send_queue)
            /\ priority_send_queue' = Tail(priority_send_queue)
            /\ priority' = TRUE
            /\ conf_event' = FALSE
            /\ send_pc' = "write"
       ELSE /\ send_pc' = "get_normal"
            /\ UNCHANGED <<command, priority_send_queue, priority, conf_event>>
    /\ UNCHANGED <<reg, send_queue, recv_queue, checksum_hex, confirmed, receiver,
                   workers, recorder, session, callers, link, peer_devices, calls,
                   losses, tracing, enq_log, sent_log, pending_at_stop, created>>

\* lines 625-629: then the normal queue; with both empty the thread sleeps
SendGetNormal ==
    /\ send_pc = "get_normal"
    /\ UNCHANGED <<deadline, get_until>>
    /\ IF send_queue # <<>>
       THEN /\ command' = Head(send_queue)
            /\ send_queue' = Tail(send_queue)
            /\ send_pc' = "write"
       ELSE /\ send_pc' = "loop"
            /\ UNCHANGED <<command, send_queue>>
    /\ UNCHANGED <<reg, priority_send_queue, recv_queue, conf_event, priority,
                   checksum_hex, confirmed, receiver, workers, recorder, session,
                   callers, link, peer_devices, history>>

\* history: the first transmission of each command, with the number of
\* commands that had been enqueued when this iteration looked at the urgent queue
LogSent(c, prio) ==
    IF tracing /\ \A i \in 1..Len(sent_log) : sent_log[i].cmd # c
    THEN Append(sent_log, [cmd |-> c, priority |-> prio, seen |-> seen_at_check])
    ELSE sent_log

\* lines 634-645 and 661: the frame is built and written, the deadline is
\* set and the first recv_queue.get(timeout=SENDING_DEADLINE) begins; ser.write
\* on a link that is closed or None raises, which ends the thread
SendWrite ==
    /\ send_pc = "write"
    /\ checksum_hex' = ChecksumHex(crc8(Encode(command)))
    /\ IF ser = "open"
       THEN /\ wire_out' = IF Len(wire_out) < MaxWireOut
                           THEN Append(wire_out, Frame(checksum_hex', command))
                           ELSE wire_out
            /\ sent_log' = LogSent(command, priority)
            /\ deadline' = now + SENDING_DEADLINE * TicksPerSecond
            /\ get_until' = now + SENDING_DEADLINE * TicksPerSecond
            /\ send_pc' = "ack_get"
       ELSE /\ send_pc' = "crashed"
            /\ UNCHANGED <<wire_out, sent_log, deadline, get_until>>
    /\ UNCHANGED <<reg, queues, recv_queue, conf_event, command, priority, confirmed,
                   receiver, workers, recorder, session, callers, wire_in,
                   peer_devices, calls, losses, tracing, enq_log, seen_at_check,
                   pending_at_stop, created>>

\* An answer to the frame just written is still on its way: the frame, its
\* echo on the wire, or the echo in the receiver's hands or in the ack slot.
AnswerOnItsWay ==
    \/ wire_out # <<>>
    \/ \E i \in 1..Len(wire_in) : wire_in[i].tag = "Recv"
    \/ recv_pc = "put"
    \/ recv_queue # <<>>

\* history: the deadline passing while an answer is on its way counts with the
\* frames and lines lost
Late == IF AnswerOnItsWay THEN losses + 1 ELSE losses

\* deadline and the bound of the get are out of use once the wait has ended
WaitOver == deadline' = 0 /\ get_until' = 0

\* lines 660-670: an echo is taken from the ack slot and compared
SendAckGet ==
    /\ send_pc = "ack_get"
    /\ recv_queue # <<>>
    /\ recv_queue' = Tail(recv_queue)
    /\ send_pc' = IF AckMatches(checksum_hex, Head(recv_queue))
                  THEN "conf_wait" ELSE "ack_deadline"
    /\ IF AckMatches(checksum_hex, Head(recv_queue))
       THEN WaitOver
       ELSE UNCHANGED <<deadline, get_until>>
    /\ UNCHANGED <<reg, queues, conf_event, command, priority, checksum_hex, confirmed,
                   receiver, workers, recorder, session, callers, link, peer_devices,
                   history>>

\* lines 647-649 and 661 after a mismatch: the deadline has not passed yet,
\* and the next recv_queue.get(timeout=SENDING_DEADLINE) begins
SendAckRemaining ==
    /\ send_pc = "ack_deadline"
    /\ send_pc' = "ack_get"
    /\ get_until' = now + SENDING_DEADLINE * TicksPerSecond
    /\ UNCHANGED deadline
    /\ UNCHANGED <<reg, queues, recv_queue, conf_event, command, priority, checksum_hex,
                   confirmed, receiver, workers, recorder, session, callers, link,
                   peer_devices, history>>

\* lines 647-650 after a mismatch: the deadline has passed
SendAckExpired(max_late) ==
    /\ send_pc = "ack_deadline"
    /\ Late <= max_late
    /\ WaitOver
    /\ losses' = Late
    /\ send_pc' = "requeue"
    /\ UNCHANGED <<reg, queues, recv_queue, conf_event, command, priority, checksum_hex,
                   confirmed, receiver, workers, recorder, session, callers, link,
                   peer_devices, calls, tracing, enq_log, sent_log, seen_at_check,
                   pending_at_stop, created>>

\* lines 672-673, 647-650: recv_queue.get(timeout=SENDING_DEADLINE) raises Empty
\* after SENDING_DEADLINE with nothing in the slot, and then remaining <= 0
SendAckEmpty(max_late) ==
    /\ send_pc = "ack_get"
    /\ recv_queue = <<>>
    /\ Late <= max_late
    /\ WaitOver
    /\ losses' = Late
    /\ send_pc' = "requeue"
    /\ UNCHANGED <<reg, queues, recv_queue, conf_event, command, priority, checksum_hex,
                   confirmed, receiver, workers, recorder, session, callers, link,
                   peer_devices, calls, tracing, enq_log, sent_log, seen_at_check,
                   pending_at_stop, created>>

\* lines 652-658: queue.put(command) with no timeout: it waits while the queue
\* is full
SendRequeue ==
    /\ send_pc = "requeue"
    /\ UNCHANGED <<deadline, get_until>>
    /\ IF priority
       THEN /\ ~Full(priority_send_queue, PRIORITY_MAXSIZE)
            /\ priority_send_queue' = Append(priority_send_queue, command)
            /\ UNCHANGED send_queue
       ELSE /\ ~Full(send_queue, SEND_MAXSIZE)
            /\ send_queue' = Append(send_queue, command)
            /\ UNCHANGED priority_send_queue
    /\ send_pc' = "conf_wait"
    /\ UNCHANGED <<reg, recv_queue, conf_event, command, priority, checksum_hex,
                   confirmed, receiver, workers, recorder, session, callers, link,
                   peer_devices, history>>

\* lines 675-685: conf_event.wait(timeout=PRIORITY_CONFIRM_TIMEOUT) for an
\* urgent command; it returns whether the event was set by then
SendConfWait ==
    /\ send_pc = "conf_wait"
    /\ UNCHANGED <<deadline, get_until>>
    /\ confirmed' = IF priority THEN conf_event ELSE confirmed
    /\ send_pc' = "loop"
    /\ UNCHANGED <<reg, queues, recv_queue, conf_event, command, priority, checksum_hex,
                   receiver, workers, recorder, session, callers, link, peer_devices,
                   history>>

Sender(max_late) ==
    \/ SendLoop
    \/ SendDrain
    \/ SendGetPriority
    \/ SendGetNormal
    \/ SendWrite
    \/ SendAckGet
    \/ SendAckRemaining
    \/ SendAckExpired(max_late)
    \/ SendAckEmpty(max_late)
    \/ SendRequeue
    \/ SendConfWait


\* ------------------------------------------------------------------------
\* _update_data (lines 496-526)

\* a comparison of the parity only
RowAcceptedEven(data_list, order) == Len(data_list) % 2 = 0

\* line 508: the row is taken only if its pairs are complete and as many as
\* the devices
RowAccepted(data_list, order) ==
    /\ Len(data_list) % 2 = 0
    /\ Len(data_list) = 2 * Len(order)

\* data_list[1::2]
RECURSIVE OddItems(_)
OddItems(data_list) ==
    IF Len(data_list) < 2 THEN <<>>
    ELSE <<data_list[2]>> \o OddItems(Tail(Tail(data_list)))

\* line 512: [datetime.now()...] + datalist[1::2]
Row(data_list) == <<Str(now)>> \o OddItems(data_list)

\* lines 515-522: the pairs are applied in order, unknown names skipped
RECURSIVE ApplyPairs(_, _)
ApplyPairs(dict, data_list) ==
    IF Len(data_list) < 2 THEN dict
    ELSE ApplyPairs(IF data_list[1] \in DOMAIN dict
                    THEN Update(dict, data_list[1], data_list[2])
                    ELSE dict,
                    Tail(Tail(data_list)))

\* lines 508, 515-522: what _update_data makes of device_dict
UpdateDict(data_list) ==
    IF RowAccepted(data_list, names_in_order)
    THEN ApplyPairs(device_dict, data_list)
    ELSE device_dict

\* lines 508-512: whether _update_data hands a row to the recorder
Recorded(data_list) ==
    RowAccepted(data_list, names_in_order) /\ thread_record_data # None

\* ------------------------------------------------------------------------
\* _receive_serial (lines 532-574)

\* lines 537-569: one line is read and dispatched on its first five characters
ReceiveLine ==
    /\ recv_pc = "read"
    /\ ~stop_receive_event
    /\ ser = "open"
    /\ wire_in # <<>>
    /\ wire_in' = Tail(wire_in)
    /\ LET data == Head(wire_in) IN
       /\ conf_event' = IF data.tag = "Conf" THEN TRUE ELSE conf_event
       /\ IF data.tag = "Data" /\ data.term
          THEN /\ datalist' = data.body
               /\ device_dict' = UpdateDict(data.body)
               /\ IF Recorded(data.body)
                  THEN /\ recording_queue' = Append(recording_queue, Row(data.body))
                       /\ now' = now + 1
                  ELSE UNCHANGED <<recording_queue, now>>
          ELSE UNCHANGED <<datalist, device_dict, recording_queue, now>>
       /\ IF data.tag = "Recv"
          THEN IF Full(recv_queue, RECV_MAXSIZE)
               THEN /\ recv_pc' = "put"
                    /\ recv_item' = BeforeSemicolon(data.body)
                    /\ UNCHANGED recv_queue
               ELSE /\ recv_queue' = Append(recv_queue, BeforeSemicolon(data.body))
                    /\ UNCHANGED <<recv_pc, recv_item>>
          ELSE UNCHANGED <<recv_queue, recv_pc, recv_item>>
    /\ UNCHANGED <<names_in_order, detached, queues, sender, workers, rec_pc, rec_file,
                   stop_record_event, thread_record_data, session, callers, wire_out,
                   peer_devices, history>>

\* line 566: recv_queue.put with no timeout waits while the slot is taken
ReceivePut ==
    /\ recv_pc = "put"
    /\ ~Full(recv_queue, RECV_MAXSIZE)
    /\ recv_queue' = Append(recv_queue, recv_item)
    /\ recv_pc' = "read"
    /\ recv_item' = <<>>
    /\ UNCHANGED <<reg, queues, conf_event, sender, datalist, workers, recorder, session,
                   callers, link, peer_devices, history>>

\* line 537: the loop ends once stop_receive_event is set
ReceiveExit ==
    /\ recv_pc = "read"
    /\ stop_receive_event
    /\ recv_pc' = "exited"
    /\ UNCHANGED <<reg, queues, recv_queue, conf_event, sender, recv_item, datalist,
                   workers, recorder, session, callers, link, peer_devices, history>>

Receiver == ReceiveLine \/ ReceivePut \/ ReceiveExit

\* ------------------------------------------------------------------------
\* The serial link and the peer.  The peer applies every intact frame in
\* arrival order ('s' appends a device, 'r <k>' deletes position k), echoes
\* the checksum it received and confirms an urgent command.  A frame written
\* without a checksum (the handshake of connect) has nothing to echo.

PeerApply(devices, c) ==
    CASE c.verb = "s" -> IF Len(devices) < MAX_DEVICES
                         THEN Append(devices, c.name) ELSE devices
      [] c.verb = "r" -> IF c.num < Len(devices) THEN Pop(devices, c.num) ELSE devices
      [] OTHER -> devices

PeerAnswer(frame) ==
    (IF frame.cksum = <<>> THEN <<>> ELSE <<Line("Recv", frame.cksum \o <<";">>, TRUE)>>)
    \o (IF frame.cmd.verb = "c" THEN <<>> ELSE <<Line("Conf", <<>>, TRUE)>>)

\* what fits on the wire is kept, the rest is lost
Fit(lines, max) == SubSeq(lines, 1, IF Len(lines) < max THEN Len(lines) ELSE max)

PeerReceive ==
    /\ wire_out # <<>>
    /\ wire_out' = Tail(wire_out)
    /\ peer_devices' = PeerApply(peer_devices, Head(wire_out).cmd)
    /\ wire_in' = Fit(wire_in \o PeerAnswer(Head(wire_out)), MaxWireIn)
    /\ UNCHANGED <<reg, queues, recv_queue, conf_event, sender, receiver, workers,
                   recorder, session, callers, history>>

\* a frame is lost (or arrives damaged and is ignored)
LoseFrame ==
    /\ wire_out # <<>>
    /\ losses' = losses + 1
    /\ wire_out' = Tail(wire_out)
    /\ UNCHANGED <<reg, queues, recv_queue, conf_event, sender, receiver, workers,
                   recorder, session, callers, wire_in, peer_devices, calls, tracing,
                   enq_log, sent_log, seen_at_check, pending_at_stop, created>>

\* a line is lost
LoseLine ==
    /\ losses' = losses + 1
    /\ \E i \in 1..Len(wire_in) :
          wire_in' = SubSeq(wire_in, 1, i - 1) \o SubSeq(wire_in, i + 1, Len(wire_in))
    /\ UNCHANGED <<reg, queues, recv_queue, conf_event, sender, receiver, workers,
                   recorder, session, callers, wire_out, peer_devices, calls, tracing,
                   enq_log, sent_log, seen_at_check, pending_at_stop, created>>

\* what a damaged echo can read: another checksum, a digit short, a character
\* long
Garbled(body) ==
    {<<"0", "0", ";">>, <<Head(body), ";">>, FirstTwo(body) \o <<"F", ";">>} \ {body}

\* the echo at the head of the wire is damaged
GarbleEcho ==
    /\ losses' = losses + 1
    /\ wire_in # <<>>
    /\ Head(wire_in).tag = "Recv"
    /\ \E body \in Garbled(Head(wire_in).body) :
          wire_in' = <<Line("Recv", body, TRUE)>> \o Tail(wire_in)
    /\ UNCHANGED <<reg, queues, recv_queue, conf_event, sender, receiver, workers,
                   recorder, session, callers, wire_out, peer_devices, calls, tracing,
                   enq_log, sent_log, seen_at_check, pending_at_stop, created>>

\* the peer writes a telemetry line
PeerData(toks, term) ==
    /\ Len(wire_in) < MaxWireIn
    /\ wire_in' = Append(wire_in, Line("Data", toks, term))
    /\ UNCHANGED <<reg, queues, recv_queue, conf_event, sender, receiver, workers,
                   recorder, session, callers, wire_out, peer_devices, history>>


\* ------------------------------------------------------------------------
\* Caller threads.  A call is a sequence of steps; call_op holds its locals:
\* ret is where _serial_write returns to, after is where the call returns to
\* ("idle" for a call made by the application).

Threads == {"t1", "t2"}

DeviceChars == {"b", "p", "l", "m"}

Op(op, name, cmd, prio, ret, after) ==
    [op |-> op, name |-> name, cmd |-> cmd, prio |-> prio, ret |-> ret,
     after |-> after, idx |-> 0, i |-> 0, n |-> 0, todo |-> <<>>]

IdleOp == Op("", "", NoCmd, FALSE, "", "idle")

\* an exception leaves every frame of the call
Raise(t) ==
    /\ call_pc' = [call_pc EXCEPT ![t] = "idle"]
    /\ call_op' = [call_op EXCEPT ![t] = IdleOp]
    /\ call_ret' = [call_ret EXCEPT ![t] = "raised"]

\* the function returns to where it was called from
Return(t) ==
    /\ call_pc' = [call_pc EXCEPT ![t] = call_op[t].after]
    /\ IF call_op[t].after = "idle"
       THEN /\ call_op' = [call_op EXCEPT ![t] = IdleOp]
            /\ call_ret' = [call_ret EXCEPT ![t] = "ok"]
       ELSE UNCHANGED <<call_op, call_ret>>

\* line 461 / 469: the queue a command goes to is full
QueueFull(prio) ==
    IF prio THEN Full(priority_send_queue, PRIORITY_MAXSIZE)
    ELSE Full(send_queue, SEND_MAXSIZE)

\* _serial_write, lines 460-463 and 468-471: a full queue raises
SerialWriteCheck(t) ==
    /\ call_pc[t] = "write_check"
    /\ IF QueueFull(call_op[t].prio)
       THEN Raise(t)
       ELSE /\ call_pc' = [call_pc EXCEPT ![t] = "write_put"]
            /\ UNCHANGED <<call_op, call_ret>>
    /\ UNCHANGED <<reg, queues, recv_queue, conf_event, sender, receiver, workers,
                   recorder, session, link, peer_devices, history>>

\* _serial_write, lines 465 and 473: queue.put(cmd) with no timeout
SerialWritePut(t) ==
    /\ call_pc[t] = "write_put"
    /\ ~QueueFull(call_op[t].prio)
    /\ IF call_op[t].prio
       THEN /\ priority_send_queue' = Append(priority_send_queue, call_op[t].cmd)
            /\ UNCHANGED send_queue
       ELSE /\ send_queue' = Append(send_queue, call_op[t].cmd)
            /\ UNCHANGED priority_send_queue
    /\ enq_log' = LogEnq(call_op[t].cmd)
    /\ IF call_op[t].ret = "return"
       THEN Return(t)
       ELSE /\ call_pc' = [call_pc EXCEPT ![t] = call_op[t].ret]
            /\ UNCHANGED <<call_op, call_ret>>
    /\ UNCHANGED <<reg, recv_queue, conf_event, sender, receiver, workers, recorder,
                   session, link, peer_devices, calls, losses, tracing, sent_log,
                   seen_at_check, pending_at_stop, created>>

\* create_device, lines 319-345, up to the call of _serial_write in
\* Device.__init__ (line 58)
CreateDevice(t, char, name, pin) ==
    /\ call_pc[t] = "idle"
    /\ calls' = calls + 1
    /\ IF \/ thread_record_data # None
          \/ name \in DOMAIN device_dict
          \/ Len(names_in_order) >= MAX_DEVICES
          \/ char \notin DeviceChars
       THEN Raise(t)
       ELSE /\ call_pc' = [call_pc EXCEPT ![t] = "write_check"]
            /\ call_op' = [call_op EXCEPT ![t] =
                   Op("create", name, CreateCmd(char, name, pin), TRUE, "init_index", "idle")]
            /\ UNCHANGED call_ret
    /\ UNCHANGED <<reg, queues, recv_queue, conf_event, sender, receiver, workers,
                   recorder, session, link, peer_devices, losses, tracing, enq_log,
                   sent_log, seen_at_check, pending_at_stop, created>>

\* Device.__init__, line 63: self.index = len(names_in_order)
InitIndex(t) ==
    /\ call_pc[t] = "init_index"
    /\ call_op' = [call_op EXCEPT ![t].idx = Len(names_in_order)]
    /\ call_pc' = [call_pc EXCEPT ![t] = "init_append"]
    /\ UNCHANGED <<reg, queues, recv_queue, conf_event, sender, receiver, workers,
                   recorder, session, call_ret, link, peer_devices, history>>

\* Device.__init__, line 64: names_in_order.append(name)
InitAppend(t) ==
    /\ call_pc[t] = "init_append"
    /\ names_in_order' = Append(names_in_order, call_op[t].name)
    /\ call_pc' = [call_pc EXCEPT ![t] = "dict_set"]
    /\ UNCHANGED <<device_dict, detached, queues, recv_queue, conf_event, sender,
                   receiver, workers, recorder, session, call_op, call_ret, link,
                   peer_devices, history>>

\* create_device, lines 349-354: device_dict[name] = device
CreateStore(t) ==
    /\ call_pc[t] = "dict_set"
    /\ device_dict' = DictSet(device_dict, call_op[t].name,
                              Device(call_op[t].name, call_op[t].idx))
    /\ created' = Append(created, call_op[t].name)
    /\ Return(t)
    /\ UNCHANGED <<names_in_order, detached, queues, recv_queue, conf_event, sender,
                   receiver, workers, recorder, session, link, peer_devices, calls,
                   losses, tracing, enq_log, sent_log, seen_at_check, pending_at_stop>>

\* remove_device, lines 376-386, up to the call of _serial_write
RemoveStart(t, name, after, todo) ==
    IF \/ thread_record_data # None
       \/ name \notin DOMAIN device_dict
    THEN Raise(t)
    ELSE /\ call_pc' = [call_pc EXCEPT ![t] = "write_check"]
         /\ call_op' = [call_op EXCEPT ![t] =
                [Op("remove", name, RemoveCmd(device_dict[name].index), TRUE,
                    "rm_del", after)
                 EXCEPT !.idx = device_dict[name].index, !.todo = todo]]
         /\ UNCHANGED call_ret

RemoveDevice(t, name) ==
    /\ call_pc[t] = "idle"
    /\ calls' = calls + 1
    /\ RemoveStart(t, name, "idle", <<>>)
    /\ UNCHANGED <<reg, queues, recv_queue, conf_event, sender, receiver, workers,
                   recorder, session, link, peer_devices, losses, tracing, enq_log,
                   sent_log, seen_at_check, pending_at_stop, created>>

\* remove_device, line 389: del device_dict[name]
RemoveDel(t) ==
    /\ call_pc[t] = "rm_del"
    /\ IF call_op[t].name \in DOMAIN device_dict
       THEN /\ device_dict' = DictDel(device_dict, call_op[t].name)
            /\ detached' = detached \cup {device_dict[call_op[t].name]}
            /\ created' = SelectSeq(created, LAMBDA k : k # call_op[t].name)
            /\ call_pc' = [call_pc EXCEPT ![t] = "rm_pop"]
            /\ UNCHANGED <<call_op, call_ret>>
       ELSE /\ Raise(t)
            /\ UNCHANGED <<device_dict, detached, created>>
    /\ UNCHANGED <<names_in_order, queues, recv_queue, conf_event, sender, receiver,
                   workers, recorder, session, link, peer_devices, calls, losses,
                   tracing, enq_log, sent_log, seen_at_check, pending_at_stop>>

\* remove_device, lines 392-395: names_in_order.pop(idx), and the range of the
\* loop that follows
RemovePop(t) ==
    /\ call_pc[t] = "rm_pop"
    /\ IF call_op[t].idx < Len(names_in_order)
       THEN /\ names_in_order' = Pop(names_in_order, call_op[t].idx)
            /\ call_op' = [call_op EXCEPT ![t].i = call_op[t].idx,
                                          ![t].n = Len(names_in_order')]
            /\ call_pc' = [call_pc EXCEPT ![t] = "rm_reindex"]
            /\ UNCHANGED call_ret
       ELSE /\ Raise(t)
            /\ UNCHANGED names_in_order
    /\ UNCHANGED <<device_dict, detached, queues, recv_queue, conf_event, sender,
                   receiver, workers, recorder, session, link, peer_devices, history>>

\* remove_device, lines 395-396: one turn of
\* for i in range(idx, len(names_in_order)): device_dict[names_in_order[i]]._set_index(i)
RemoveReindex(t) ==
    /\ call_pc[t] = "rm_reindex"
    /\ LET i == call_op[t].i IN
       IF i >= call_op[t].n
       THEN /\ Return(t)
            /\ UNCHANGED device_dict
       ELSE IF i < Len(names_in_order) /\ names_in_order[i + 1] \in DOMAIN device_dict
       THEN /\ device_dict' = SetIndex(device_dict, names_in_order[i + 1], i)
            /\ call_op' = [call_op EXCEPT ![t].i = i + 1]
            /\ UNCHANGED <<call_pc, call_ret>>
       ELSE /\ Raise(t)
            /\ UNCHANGED device_dict
    /\ UNCHANGED <<names_in_order, detached, queues, recv_queue, conf_event, sender,
                   receiver, workers, recorder, session, link, peer_devices, history>>

\* the Device instances a caller can hold: the registered ones and the ones
\* removed since
Handles == {device_dict[k] : k \in DOMAIN device_dict} \cup detached

\* Device.set_value, line 94
SetValue(t, device, value) ==
    /\ call_pc[t] = "idle"
    /\ calls' = calls + 1
    /\ device \in Handles
    /\ call_pc' = [call_pc EXCEPT ![t] = "write_check"]
    /\ call_op' = [call_op EXCEPT ![t] =
           Op("set_value", device.name, SetCmd(device.index, value), FALSE, "return", "idle")]
    /\ UNCHANGED <<reg, queues, recv_queue, conf_event, sender, receiver, workers,
                   recorder, session, call_ret, link, peer_devices, losses, tracing,
                   enq_log, sent_log, seen_at_check, pending_at_stop, created>>

\* change_data_stream_period, lines 419-423, up to the call of _serial_write
PeriodStart(t, delay, after) ==
    IF delay < 1
    THEN Raise(t)
    ELSE /\ call_pc' = [call_pc EXCEPT ![t] = "write_check"]
         /\ call_op' = [call_op EXCEPT ![t] =
                [Op("period", "", PeriodCmd(delay), TRUE, "set_period", after)
                 EXCEPT !.n = delay]]
         /\ UNCHANGED call_ret

ChangeDataStreamPeriod(t, delay) ==
    /\ call_pc[t] = "idle"
    /\ calls' = calls + 1
    /\ PeriodStart(t, delay, "idle")
    /\ UNCHANGED <<reg, queues, recv_queue, conf_event, sender, receiver, workers,
                   recorder, session, link, peer_devices, losses, tracing, enq_log,
                   sent_log, seen_at_check, pending_at_stop, created>>

\* change_data_stream_period, line 424: data_stream_period = delay
SetPeriod(t) ==
    /\ call_pc[t] = "set_period"
    /\ data_stream_period' = <<call_op[t].n>>
    /\ Return(t)
    /\ UNCHANGED <<reg, queues, recv_queue, conf_event, sender, receiver, workers,
                   recorder, ser, data_stream_active, link, peer_devices, history>>


\* ------------------------------------------------------------------------
\* Recording: start_recording, stop_recording and the _record_data_to_csv
\* threads.  Every recorder thread has a sink of its own, rec_file.

Recorders == {"rec1", "rec2"}

\* Thread.is_alive(): from start() until the thread's function returns
Alive(thread) ==
    IF thread = None THEN FALSE ELSE rec_pc[thread] \notin {"none", "closed"}

\* the thread waits for a row in recording_queue.get
RecWaiting(thread) ==
    /\ rec_pc[thread] \in {"get", "drain_get"}
    /\ recording_queue = <<>>

\* start_recording, lines 437-441, up to _start_record_thread's check of an
\* existing thread (lines 760-762)
StartRecording(t) ==
    /\ call_pc[t] = "idle"
    /\ calls' = calls + 1
    /\ IF ser # "open"
       THEN Raise(t)
       ELSE /\ call_pc' = [call_pc EXCEPT ![t] =
                   IF Alive(thread_record_data) THEN "rec_stop" ELSE "rec_start"]
            /\ call_op' = [call_op EXCEPT ![t] =
                   Op("start_recording", "", NoCmd, FALSE, "", "rec_start")]
            /\ UNCHANGED call_ret
    /\ UNCHANGED <<reg, queues, recv_queue, conf_event, sender, receiver, workers,
                   recorder, session, link, peer_devices, losses, tracing, enq_log,
                   sent_log, seen_at_check, pending_at_stop, created>>

\* stop_recording, lines 443-446
StopRecording(t) ==
    /\ call_pc[t] = "idle"
    /\ calls' = calls + 1
    /\ call_pc' = [call_pc EXCEPT ![t] = "rec_stop"]
    /\ call_op' = [call_op EXCEPT ![t] = Op("stop_recording", "", NoCmd, FALSE, "", "idle")]
    /\ UNCHANGED <<reg, queues, recv_queue, conf_event, sender, receiver, workers,
                   recorder, session, call_ret, link, peer_devices, losses, tracing,
                   enq_log, sent_log, seen_at_check, pending_at_stop, created>>

\* _stop_record_thread, line 775: stop_record_event.set(); the history keeps
\* the rows that are in the buffer at this moment, for the recording stopped
RecStopSet(t) ==
    /\ call_pc[t] = "rec_stop"
    /\ stop_record_event' = TRUE
    /\ pending_at_stop' = IF thread_record_data = None THEN pending_at_stop
                          ELSE [pending_at_stop EXCEPT ![thread_record_data] = recording_queue]
    /\ call_pc' = [call_pc EXCEPT ![t] = "rec_join"]
    /\ UNCHANGED <<reg, queues, recv_queue, conf_event, sender, receiver, workers,
                   rec_pc, rec_file, thread_record_data, recording_queue, now, session,
                   call_op, call_ret, link, peer_devices, calls, losses, tracing,
                   enq_log, sent_log, seen_at_check, created>>

\* _stop_record_thread, lines 777-783: join(timeout=1) returns when the thread
\* has ended, or after a second, which passes while the thread waits for a
\* row; then thread_record_data = None
RecJoin(t) ==
    /\ call_pc[t] = "rec_join"
    /\ Alive(thread_record_data) => RecWaiting(thread_record_data)
    /\ thread_record_data' = None
    /\ Return(t)
    /\ UNCHANGED <<reg, queues, recv_queue, conf_event, sender, receiver, workers,
                   rec_pc, rec_file, stop_record_event, recording_queue, now, session,
                   link, peer_devices, history>>

\* _start_record_thread, lines 764-768: the stop event is cleared and a new
\* thread is started
RecStart(t) ==
    /\ call_pc[t] = "rec_start"
    /\ \E r \in Recorders : rec_pc[r] = "none"
    /\ LET thread == CHOOSE r \in Recorders : rec_pc[r] = "none" IN
       /\ thread_record_data' = thread
       /\ rec_pc' = [rec_pc EXCEPT ![thread] = "start"]
    /\ stop_record_event' = FALSE
    /\ call_pc' = [call_pc EXCEPT ![t] = "idle"]
    /\ call_op' = [call_op EXCEPT ![t] = IdleOp]
    /\ call_ret' = [call_ret EXCEPT ![t] = "ok"]
    /\ UNCHANGED <<reg, queues, recv_queue, conf_event, sender, receiver, workers,
                   rec_file, recording_queue, now, session, link, peer_devices, history>>

\* 'Time'
TimeText == <<"T", "i", "m", "e">>

\* _record_data_to_csv, lines 730-736: the file is opened and the header written
RecOpen(r) ==
    /\ rec_pc[r] = "start"
    /\ rec_file' = [rec_file EXCEPT ![r] = <<<<TimeText>> \o names_in_order>>]
    /\ rec_pc' = [rec_pc EXCEPT ![r] = "loop"]
    /\ UNCHANGED <<reg, queues, recv_queue, conf_event, sender, receiver, workers,
                   stop_record_event, thread_record_data, recording_queue, now, session,
                   callers, link, peer_devices, history>>

\* line 738: while not stop_record_event.is_set()
RecLoop(r) ==
    /\ rec_pc[r] = "loop"
    /\ rec_pc' = [rec_pc EXCEPT ![r] = IF stop_record_event THEN "drain" ELSE "get"]
    /\ UNCHANGED <<reg, queues, recv_queue, conf_event, sender, receiver, workers,
                   rec_file, stop_record_event, thread_record_data, recording_queue, now,
                   session, callers, link, peer_devices, history>>

\* lines 740-741: a row is taken and written
RecGet(r) ==
    /\ rec_pc[r] = "get"
    /\ recording_queue # <<>>
    /\ recording_queue' = Tail(recording_queue)
    /\ rec_file' = [rec_file EXCEPT ![r] = Append(@, Head(recording_queue))]
    /\ rec_pc' = [rec_pc EXCEPT ![r] = "loop"]
    /\ UNCHANGED <<reg, queues, recv_queue, conf_event, sender, receiver, workers,
                   stop_record_event, thread_record_data, now, session, callers, link,
                   peer_devices, history>>

\* lines 740-743: get(timeout=data_stream_period) raises Empty once the period
\* has passed; with data_stream_period None it waits for a row
RecGetEmpty(r) ==
    /\ rec_pc[r] = "get"
    /\ recording_queue = <<>>
    /\ data_stream_period # <<>>
    /\ rec_pc' = [rec_pc EXCEPT ![r] = "loop"]
    /\ UNCHANGED <<reg, queues, recv_queue, conf_event, sender, receiver, workers,
                   rec_file, stop_record_event, thread_record_data, recording_queue, now,
                   session, callers, link, peer_devices, history>>

\* line 747: while not recording_queue.empty(); the file is closed when the
\* loop ends
RecDrain(r) ==
    /\ rec_pc[r] = "drain"
    /\ rec_pc' = [rec_pc EXCEPT ![r] =
           IF recording_queue = <<>> THEN "closed" ELSE "drain_get"]
    /\ UNCHANGED <<reg, queues, recv_queue, conf_event, sender, receiver, workers,
                   rec_file, stop_record_event, thread_record_data, recording_queue, now,
                   session, callers, link, peer_devices, history>>

\* line 748: writer.writerow(recording_queue.get()), a get with no timeout
RecDrainGet(r) ==
    /\ rec_pc[r] = "drain_get"
    /\ recording_queue # <<>>
    /\ recording_queue' = Tail(recording_queue)
    /\ rec_file' = [rec_file EXCEPT ![r] = Append(@, Head(recording_queue))]
    /\ rec_pc' = [rec_pc EXCEPT ![r] = "drain"]
    /\ UNCHANGED <<reg, queues, recv_queue, conf_event, sender, receiver, workers,
                   stop_record_event, thread_record_data, now, session, callers, link,
                   peer_devices, history>>


\* ------------------------------------------------------------------------
\* disconnect (lines 246-297)

\* lines 258-259: a recording is stopped first
Disconnect(t) ==
    /\ call_pc[t] = "idle"
    /\ calls' = calls + 1
    /\ call_pc' = [call_pc EXCEPT ![t] =
           IF thread_record_data # None THEN "rec_stop" ELSE "dc_period"]
    /\ call_op' = [call_op EXCEPT ![t] = Op("disconnect", "", NoCmd, FALSE, "", "dc_period")]
    /\ UNCHANGED <<reg, queues, recv_queue, conf_event, sender, receiver, workers,
                   recorder, session, call_ret, link, peer_devices, losses, tracing,
                   enq_log, sent_log, seen_at_check, pending_at_stop, created>>

\* line 262: change_data_stream_period(DEFAULT_DATA_STREAM_PERIOD)
DiscPeriod(t) ==
    /\ call_pc[t] = "dc_period"
    /\ PeriodStart(t, DEFAULT_DATA_STREAM_PERIOD, "dc_stream")
    /\ UNCHANGED <<reg, queues, recv_queue, conf_event, sender, receiver, workers,
                   recorder, session, link, peer_devices, history>>

\* line 265 and line 493: _disable_data_stream enqueues "t 0"
DiscStream(t) ==
    /\ call_pc[t] = "dc_stream"
    /\ call_op' = [call_op EXCEPT ![t] =
           Op("disable_data_stream", "", StreamCmd(0), TRUE, "dc_stream_off", "idle")]
    /\ call_pc' = [call_pc EXCEPT ![t] = "write_check"]
    /\ UNCHANGED <<reg, queues, recv_queue, conf_event, sender, receiver, workers,
                   recorder, session, call_ret, link, peer_devices, history>>

\* line 494: data_stream_active = False; line 268: the copy names_in_order[:]
DiscStreamOff(t) ==
    /\ call_pc[t] = "dc_stream_off"
    /\ data_stream_active' = FALSE
    /\ call_op' = [call_op EXCEPT ![t].todo = names_in_order]
    /\ call_pc' = [call_pc EXCEPT ![t] = "dc_remove"]
    /\ UNCHANGED <<reg, queues, recv_queue, conf_event, sender, receiver, workers,
                   recorder, ser, data_stream_period, call_ret, link, peer_devices,
                   history>>

\* lines 268-269: for name in names_in_order[:]: remove_device(name)
DiscRemove(t) ==
    /\ call_pc[t] = "dc_remove"
    /\ IF call_op[t].todo = <<>>
       THEN /\ call_pc' = [call_pc EXCEPT ![t] = "dc_usermode"]
            /\ UNCHANGED <<call_op, call_ret>>
       ELSE RemoveStart(t, Head(call_op[t].todo), "dc_remove", Tail(call_op[t].todo))
    /\ UNCHANGED <<reg, queues, recv_queue, conf_event, sender, receiver, workers,
                   recorder, session, link, peer_devices, history>>

\* line 273: _serial_write("z 1", priority=True)
DiscUserMode(t) ==
    /\ call_pc[t] = "dc_usermode"
    /\ call_op' = [call_op EXCEPT ![t] =
           Op("disconnect", "", UserModeCmd(1), TRUE, "dc_wait_priority", "idle")]
    /\ call_pc' = [call_pc EXCEPT ![t] = "write_check"]
    /\ UNCHANGED <<reg, queues, recv_queue, conf_event, sender, receiver, workers,
                   recorder, session, call_ret, link, peer_devices, history>>

\* lines 276-277: while not priority_send_queue.empty(): sleep
DiscWaitPriority(t) ==
    /\ call_pc[t] = "dc_wait_priority"
    /\ priority_send_queue = <<>>
    /\ call_pc' = [call_pc EXCEPT ![t] = "dc_wait_conf"]
    /\ UNCHANGED <<reg, queues, recv_queue, conf_event, sender, receiver, workers,
                   recorder, session, call_op, call_ret, link, peer_devices, history>>

\* a confirmation is still on its way: the sender holds an urgent command it
\* has not got the answer for, or the answer is on the wire
ConfOnItsWay ==
    \/ priority /\ send_pc \in {"write", "ack_get", "ack_deadline"}
    \/ wire_out # <<>>
    \/ wire_in # <<>>

\* lines 279-281: until conf_event is set or PRIORITY_CONFIRM_TIMEOUT has
\* passed, which it does when no confirmation is on its way
DiscWaitConf(t) ==
    /\ call_pc[t] = "dc_wait_conf"
    /\ conf_event \/ ~ConfOnItsWay
    /\ call_pc' = [call_pc EXCEPT ![t] = "dc_wait_normal"]
    /\ UNCHANGED <<reg, queues, recv_queue, conf_event, sender, receiver, workers,
                   recorder, session, call_op, call_ret, link, peer_devices, history>>

\* lines 282-284: while not send_queue.empty(): sleep
DiscWaitNormal(t) ==
    /\ call_pc[t] = "dc_wait_normal"
    /\ send_queue = <<>>
    /\ call_pc' = [call_pc EXCEPT ![t] = "dc_stop_receive"]
    /\ UNCHANGED <<reg, queues, recv_queue, conf_event, sender, receiver, workers,
                   recorder, session, call_op, call_ret, link, peer_devices, history>>

\* _stop_receive_thread, line 596: stop_receive_event.set()
StopReceiveSet(t) ==
    /\ call_pc[t] = "dc_stop_receive"
    /\ stop_receive_event' = TRUE
    /\ call_pc' = [call_pc EXCEPT ![t] = "dc_join_receive"]
    /\ UNCHANGED <<reg, queues, recv_queue, conf_event, sender, receiver, stop_send_event,
                   thread_send_serial, other_sender, thread_receive_serial, recorder,
                   session, call_op,
                   call_ret, link, peer_devices, history>>

\* _stop_receive_thread, lines 598-604: join(timeout=1) returns when the thread
\* has ended, or after a second, which passes while the thread waits in
\* recv_queue.put; then thread_receive_serial = None
StopReceiveJoin(t) ==
    /\ call_pc[t] = "dc_join_receive"
    /\ \/ thread_receive_serial = None
       \/ recv_pc \in {"none", "exited"}
       \/ recv_pc = "put" /\ Full(recv_queue, RECV_MAXSIZE)
    /\ thread_receive_serial' = None
    /\ call_pc' = [call_pc EXCEPT ![t] =
           IF call_op[t].op = "connect" THEN "cn_start_receive" ELSE "dc_stop_send"]
    /\ UNCHANGED <<reg, queues, recv_queue, conf_event, sender, receiver, stop_send_event,
                   thread_send_serial, other_sender, stop_receive_event, recorder,
                   session, call_op,
                   call_ret, link, peer_devices, history>>

\* _stop_send_thread, line 708: stop_send_event.set()
StopSendSet(t) ==
    /\ call_pc[t] = "dc_stop_send"
    /\ stop_send_event' = TRUE
    /\ call_pc' = [call_pc EXCEPT ![t] = "dc_join_send"]
    /\ UNCHANGED <<reg, queues, recv_queue, conf_event, sender, receiver,
                   thread_send_serial, other_sender, stop_receive_event,
                   thread_receive_serial,
                   recorder, session, call_op, call_ret, link, peer_devices, history>>

\* a _send_serial thread that has a command to get acknowledged and no
\* _receive_serial thread to hand it the echo: it does not end
SenderUnanswered(s) ==
    /\ recv_pc \in {"none", "exited"}
    /\ recv_queue = <<>>
    /\ \/ s.pc \in {"write", "ack_get", "ack_deadline", "requeue"}
       \/ priority_send_queue # <<>>
       \/ send_queue # <<>>

\* _stop_send_thread, lines 710-716: join(timeout=1) returns when the thread
\* has ended, or after a second, which passes while the thread waits in the
\* put of its re-enqueue or goes on sending with nothing to acknowledge it;
\* then thread_send_serial = None
StopSendJoin(t) ==
    /\ call_pc[t] = "dc_join_send"
    /\ \/ thread_send_serial = None
       \/ ~SenderAlive(NamedSender)
       \/ /\ NamedSender.pc = "requeue"
          /\ IF NamedSender.priority THEN Full(priority_send_queue, PRIORITY_MAXSIZE)
             ELSE Full(send_queue, SEND_MAXSIZE)
       \/ SenderUnanswered(NamedSender)
    /\ thread_send_serial' = None
    /\ other_sender' = [other_sender EXCEPT !.named = FALSE]
    /\ call_pc' = [call_pc EXCEPT ![t] =
           IF call_op[t].op = "connect" THEN "cn_start_send" ELSE "dc_close"]
    /\ UNCHANGED <<reg, queues, recv_queue, conf_event, sender, receiver, stop_send_event,
                   stop_receive_event, thread_receive_serial, recorder, session, call_op,
                   call_ret, link, peer_devices, history>>

\* lines 290-297: ser.close() if the link is open; ser = None
DiscClose(t) ==
    /\ call_pc[t] = "dc_close"
    /\ ser' = None
    /\ Return(t)
    /\ UNCHANGED <<reg, queues, recv_queue, conf_event, sender, receiver, workers,
                   recorder, data_stream_period, data_stream_active, link, peer_devices,
                   history>>

\* ------------------------------------------------------------------------
\* connect (lines 203-244)

\* lines 219-224: ser = serial.Serial(...), the peer resets as the port is
\* opened, and what it had sent is discarded.  The model follows a connect
\* made while no port is open.
Connect(t) ==
    /\ call_pc[t] = "idle"
    /\ ser # "open"
    /\ calls' = calls + 1
    /\ ser' = "open"
    /\ wire_out' = <<>>
    /\ wire_in' = <<>>
    /\ peer_devices' = <<>>
    /\ call_op' = [call_op EXCEPT ![t] = Op("connect", "", NoCmd, FALSE, "", "idle")]
    /\ call_pc' = [call_pc EXCEPT ![t] = "cn_start_send"]
    /\ UNCHANGED <<reg, queues, recv_queue, conf_event, sender, receiver, workers,
                   recorder, data_stream_period, data_stream_active, call_ret, losses,
                   tracing, enq_log, sent_log, seen_at_check, pending_at_stop, created>>

\* _start_send_thread, lines 687-701: a thread that thread_send_serial refers
\* to and that is alive is stopped first; then stop_send_event.clear() and a
\* new thread is started.  The model follows two _send_serial threads.
ConnStartSend(t) ==
    /\ call_pc[t] = "cn_start_send"
    /\ IF thread_send_serial # None /\ SenderAlive(NamedSender)
       THEN /\ call_pc' = [call_pc EXCEPT ![t] = "dc_stop_send"]
            /\ UNCHANGED <<sender, workers>>
       ELSE /\ ~(SenderAlive(ThisSender) /\ SenderAlive(other_sender))
            /\ stop_send_event' = FALSE
            /\ thread_send_serial' = "sender"
            /\ other_sender' = IF SenderAlive(ThisSender)
                               THEN [ThisSender EXCEPT !.named = FALSE]
                               ELSE [other_sender EXCEPT !.named = FALSE]
            /\ send_pc' = "loop"
            /\ command' = NoCmd
            /\ priority' = FALSE
            /\ checksum_hex' = <<>>
            /\ confirmed' = FALSE
            /\ deadline' = 0
            /\ get_until' = 0
            /\ call_pc' = [call_pc EXCEPT ![t] = "cn_start_receive"]
            /\ UNCHANGED <<stop_receive_event, thread_receive_serial>>
    /\ UNCHANGED <<reg, queues, recv_queue, conf_event, receiver, recorder, session,
                   call_op, call_ret, link, peer_devices, history>>

\* _start_receive_thread, lines 576-589, likewise.  The model follows one
\* _receive_serial thread.
ConnStartReceive(t) ==
    /\ call_pc[t] = "cn_start_receive"
    /\ IF thread_receive_serial # None /\ recv_pc \in {"read", "put"}
       THEN /\ call_pc' = [call_pc EXCEPT ![t] = "dc_stop_receive"]
            /\ UNCHANGED <<receiver, workers>>
       ELSE /\ recv_pc \in {"none", "exited"}
            /\ stop_receive_event' = FALSE
            /\ thread_receive_serial' = "receiver"
            /\ recv_pc' = "read"
            /\ recv_item' = <<>>
            /\ call_pc' = [call_pc EXCEPT ![t] = "cn_handshake"]
            /\ UNCHANGED <<datalist, stop_send_event, thread_send_serial, other_sender>>
    /\ UNCHANGED <<reg, queues, recv_queue, conf_event, sender, recorder, session,
                   call_op, call_ret, link, peer_devices, history>>

\* lines 230-233: conf_event.clear(); "z 0" is written by the caller under
\* serial_lock, with no checksum and not through a queue
ConnHandshake(t) ==
    /\ call_pc[t] = "cn_handshake"
    /\ conf_event' = FALSE
    /\ wire_out' = IF Len(wire_out) < MaxWireOut
                   THEN Append(wire_out, Frame(<<>>, UserModeCmd(0)))
                   ELSE wire_out
    /\ call_pc' = [call_pc EXCEPT ![t] = "cn_wait_conf"]
    /\ UNCHANGED <<reg, queues, recv_queue, sender, receiver, workers, recorder, session,
                   call_op, call_ret, wire_in, peer_devices, history>>

\* lines 234-237: conf_event.wait(timeout=2); the two seconds pass when no
\* confirmation is on its way, and connect raises
ConnWaitConf(t) ==
    /\ call_pc[t] = "cn_wait_conf"
    /\ conf_event \/ (wire_out = <<>> /\ wire_in = <<>>)
    /\ IF conf_event
       THEN /\ call_op' = [call_op EXCEPT ![t] =
                   Op("enable_data_stream", "", StreamCmd(1), TRUE, "cn_stream_on", "idle")]
            /\ call_pc' = [call_pc EXCEPT ![t] = "write_check"]
            /\ UNCHANGED call_ret
       ELSE Raise(t)
    /\ UNCHANGED <<reg, queues, recv_queue, conf_event, sender, receiver, workers,
                   recorder, session, link, peer_devices, history>>

\* _enable_data_stream, line 484: data_stream_active = True
ConnStreamOn(t) ==
    /\ call_pc[t] = "cn_stream_on"
    /\ data_stream_active' = TRUE
    /\ Return(t)
    /\ UNCHANGED <<reg, queues, recv_queue, conf_event, sender, receiver, workers,
                   recorder, ser, data_stream_period, link, peer_devices, history>>

\* line 677: conf_event.wait(timeout=PRIORITY_CONFIRM_TIMEOUT) when the peer
\* confirms in time: the wait for an urgent command ends with the event set
SendConfWaitInTime ==
    /\ priority => conf_event
    /\ SendConfWait


\* ------------------------------------------------------------------------
\* Initial states

EmptyDict == [k \in {} |-> Device(k, 0)]

\* the registry after the devices of order were created one after the other
Registered(order) ==
    [k \in {order[i] : i \in 1..Len(order)} |->
        Device(k, (CHOOSE i \in 1..Len(order) : order[i] = k) - 1)]

\* n copies of a command, as n calls of one function enqueue them
Fill(c, n) == [i \in 1..n |-> c]

\* the module's globals as lines 142-175 set them, no thread started, and the
\* devices of order created since: create_device needs no connection
Unconnected(order) ==
    /\ device_dict = Registered(order)
    /\ names_in_order = order
    /\ detached = {}
    /\ priority_send_queue = [i \in 1..Len(order) |-> CreateCmd("l", order[i], 9)]
    /\ send_queue = <<>>
    /\ recv_queue = <<>>
    /\ conf_event = FALSE
    /\ send_pc = "none"
    /\ command = NoCmd
    /\ priority = FALSE
    /\ checksum_hex = <<>>
    /\ confirmed = FALSE
    /\ stop_send_event = FALSE
    /\ thread_send_serial = None
    /\ other_sender = NoSender
    /\ deadline = 0
    /\ get_until = 0
    /\ recv_pc = "none"
    /\ recv_item = <<>>
    /\ datalist = <<>>
    /\ stop_receive_event = FALSE
    /\ thread_receive_serial = None
    /\ rec_pc = [r \in Recorders |-> "none"]
    /\ rec_file = [r \in Recorders |-> <<>>]
    /\ stop_record_event = FALSE
    /\ thread_record_data = None
    /\ recording_queue = <<>>
    /\ now = 0
    /\ ser = None
    /\ data_stream_period = <<>>
    /\ data_stream_active = FALSE
    /\ call_pc = [t \in Threads |-> "idle"]
    /\ call_op = [t \in Threads |-> IdleOp]
    /\ call_ret = [t \in Threads |-> "none"]
    /\ wire_out = <<>>
    /\ wire_in = <<>>
    /\ peer_devices = <<>>
    /\ calls = 0
    /\ losses = 0
    /\ tracing = FALSE
    /\ enq_log = <<>>
    /\ sent_log = <<>>
    /\ seen_at_check = 0
    /\ pending_at_stop = [r \in Recorders |-> <<>>]
    /\ created = order

\* a state of an established connection (connect, lines 219-240): the link
\* open, both workers running, the handshake and "t 1" sent and confirmed;
\* the devices of order created since and known to the peer, the commands of
\* urgent and normal enqueued since and not yet taken by the sender, the
\* stream period as change_data_stream_period left it (<<>> for None)
Connected(order, urgent, normal, period, trace) ==
    /\ device_dict = Registered(order)
    /\ names_in_order = order
    /\ detached = {}
    /\ priority_send_queue = urgent
    /\ send_queue = normal
    /\ recv_queue = <<>>
    /\ conf_event = TRUE
    /\ send_pc = "loop"
    /\ command = NoCmd
    /\ priority = FALSE
    /\ checksum_hex = <<>>
    /\ confirmed = FALSE
    /\ stop_send_event = FALSE
    /\ thread_send_serial = "sender"
    /\ other_sender = NoSender
    /\ deadline = 0
    /\ get_until = 0
    /\ recv_pc = "read"
    /\ recv_item = <<>>
    /\ datalist = <<>>
    /\ stop_receive_event = FALSE
    /\ thread_receive_serial = "receiver"
    /\ rec_pc = [r \in Recorders |-> "none"]
    /\ rec_file = [r \in Recorders |-> <<>>]
    /\ stop_record_event = FALSE
    /\ thread_record_data = None
    /\ recording_queue = <<>>
    /\ now = 0
    /\ ser = "open"
    /\ data_stream_period = period
    /\ data_stream_active = TRUE
    /\ call_pc = [t \in Threads |-> "idle"]
    /\ call_op = [t \in Threads |-> IdleOp]
    /\ call_ret = [t \in Threads |-> "none"]
    /\ wire_out = <<>>
    /\ wire_in = <<>>
    /\ peer_devices = order
    /\ calls = 0
    /\ losses = 0
    /\ tracing = trace
    /\ enq_log = urgent \o normal
    /\ sent_log = <<>>
    /\ seen_at_check = 0
    /\ pending_at_stop = [r \in Recorders |-> <<>>]
    /\ created = order

InitConnected == Connected(<<>>, <<>>, <<>>, <<>>, FALSE)

\* ------------------------------------------------------------------------
\* Spec: one caller thread creates and removes devices, one call at a time,
\* over a link that loses frames and lines, damages echoes and answers late.

Init == InitConnected

Next ==
    \/ /\ calls < MaxCalls
       /\ \E name \in Names : CreateDevice("t1", "l", name, 9)
    \/ /\ calls < MaxCalls
       /\ \E name \in Names : RemoveDevice("t1", name)
    \/ SerialWriteCheck("t1")
    \/ SerialWritePut("t1")
    \/ InitIndex("t1")
    \/ InitAppend("t1")
    \/ CreateStore("t1")
    \/ RemoveDel("t1")
    \/ RemovePop("t1")
    \/ RemoveReindex("t1")
    \/ Sender(MaxLoss)
    \/ ReceiveLine
    \/ ReceivePut
    \/ PeerReceive
    \/ losses < MaxLoss /\ LoseFrame
    \/ losses < MaxLoss /\ LoseLine
    \/ losses < MaxLoss /\ GarbleEcho

Spec == Init /\ [][Next]_vars


\* ------------------------------------------------------------------------
\* SpecReg: one caller thread makes create_device and remove_device calls one
\* at a time, valid and invalid, over a link that loses nothing; the urgent
\* queue starts empty or full, so that _serial_write can reject a call.

RegNames == {"a", "b", "c"}

RegChars == {"l", "x"}

FullOfPeriod == Fill(PeriodCmd(DEFAULT_DATA_STREAM_PERIOD), PRIORITY_MAXSIZE)

InitReg == \E urgent \in {<<>>, FullOfPeriod} : Connected(<<>>, urgent, <<>>, <<>>, FALSE)

NextReg ==
    \/ /\ calls < MaxRegCalls
       /\ \E char \in RegChars, name \in RegNames : CreateDevice("t1", char, name, 9)
    \/ /\ calls < MaxRegCalls
       /\ \E name \in RegNames : RemoveDevice("t1", name)
    \/ SerialWriteCheck("t1")
    \/ SerialWritePut("t1")
    \/ InitIndex("t1")
    \/ InitAppend("t1")
    \/ CreateStore("t1")
    \/ RemoveDel("t1")
    \/ RemovePop("t1")
    \/ RemoveReindex("t1")
    \/ SendLoop
    \/ SendDrain
    \/ SendGetPriority
    \/ SendGetNormal
    \/ SendWrite
    \/ SendAckGet
    \/ SendConfWait
    \/ ReceiveLine
    \/ PeerReceive

SpecReg == InitReg /\ [][NextReg]_vars

\* no caller thread is inside a call
CallersIdle == \A t \in Threads : call_pc[t] = "idle"

\* C1: between create_device and remove_device calls made one at a time,
\* successful or rejected, the keys of device_dict are exactly the entries of
\* names_in_order, names_in_order has no duplicates, the device named
\* names_in_order[i] has index i, the indices are {0..count-1}, and the order
\* is the order of creation without the removed names.
IndexInvariant ==
    CallersIdle =>
        LET count == Len(names_in_order) IN
        /\ DOMAIN device_dict = {names_in_order[i] : i \in 1..count}
        /\ \A i, j \in 1..count : i # j => names_in_order[i] # names_in_order[j]
        /\ \A i \in 1..count : /\ names_in_order[i] \in DOMAIN device_dict
                               /\ device_dict[names_in_order[i]].index = i - 1
        /\ {device_dict[k].index : k \in DOMAIN device_dict} = 0..(count - 1)
        /\ names_in_order = created

\* C1 witness: a, b, c created and a removed: b and c have moved down
IndexInvariantWitness ==
    /\ CallersIdle
    /\ calls = MaxRegCalls
    /\ call_ret["t1"] = "ok"
    /\ names_in_order = <<"b", "c">>
    /\ device_dict["b"].index = 0
    /\ device_dict["c"].index = 1

\* ------------------------------------------------------------------------
\* Claims about the link, under Spec

\* the sender holds a command it has written and not retired or given up
AwaitingAck == send_pc \in {"write", "ack_get", "ack_deadline", "requeue"}

\* nothing is on its way anywhere: no call in progress, both send queues
\* empty, no command awaiting acknowledgment, nothing on the wires
Quiescent ==
    /\ CallersIdle
    /\ priority_send_queue = <<>>
    /\ send_queue = <<>>
    /\ ~AwaitingAck
    /\ wire_out = <<>>
    /\ wire_in = <<>>

\* C2: whenever both send queues are empty and no command is awaiting
\* acknowledgment, the peer's device array holds the same names in the same
\* order as names_in_order, whatever frames and echoes were lost and
\* whatever was retransmitted.
PeerMirrorsHost == Quiescent => peer_devices = names_in_order

\* the sender stops waiting for the acknowledgment of the command it wrote
LeavesAckWait ==
    /\ send_pc \in {"ack_get", "ack_deadline"}
    /\ send_pc' \notin {"ack_get", "ack_deadline"}

\* the sender takes from the ack slot an echo of the checksum of its command
TakesMatchingEcho ==
    /\ recv_queue # <<>>
    /\ recv_queue' = Tail(recv_queue)
    /\ FirstTwo(Head(recv_queue)) = ChecksumHex(crc8(Encode(command)))

\* the sender takes from the ack slot an echo of another checksum
TakesOtherEcho ==
    /\ send_pc = "ack_get"
    /\ recv_queue # <<>>
    /\ recv_queue' = Tail(recv_queue)
    /\ FirstTwo(Head(recv_queue)) # ChecksumHex(crc8(Encode(command)))

\* C3: the sender leaves the ack wait without re-enqueueing the command if and
\* only if it took a Recv echo whose checksum is the two-hex-digit CRC-8 of the
\* payload it wrote; otherwise it leaves only to re-enqueue, and an echo of
\* another checksum leaves it waiting with the same command.
AckCorrectness ==
    [][/\ LeavesAckWait =>
             /\ send_pc' \in {"conf_wait", "requeue"}
             /\ send_pc' = "conf_wait" <=> TakesMatchingEcho
             /\ command' = command
       /\ TakesOtherEcho =>
             /\ send_pc' = "ack_deadline"
             /\ command' = command
             /\ UNCHANGED queues]_vars

\* C3 witness: an echo of another checksum was taken and the sender still
\* waits for the acknowledgment of its command
AckCorrectnessWitness ==
    /\ send_pc = "ack_deadline"
    /\ losses > 0
    /\ checksum_hex = ChecksumHex(crc8(Encode(command)))

\* ------------------------------------------------------------------------
\* SpecQueue: two caller threads enqueue normal commands (set_value) and
\* urgent ones (change_data_stream_period) on queues that are one short of
\* full, while the sender takes commands, loses an answer and re-enqueues.
\* The sender is slow: it starts an iteration only while a queue is nearly full.

Backlogged ==
    \/ Len(priority_send_queue) >= PRIORITY_MAXSIZE - MaxDrain
    \/ Len(send_queue) >= SEND_MAXSIZE - MaxDrain

InitQueue ==
    \E fill \in {<<Fill(PeriodCmd(DEFAULT_DATA_STREAM_PERIOD), PRIORITY_MAXSIZE - 1), <<>>>>,
                 <<<<>>, Fill(SetCmd(0, 1), SEND_MAXSIZE - 1)>>} :
        Connected(<<"a">>, fill[1], fill[2], <<>>, FALSE)

NextQueue ==
    \/ /\ calls < MaxQueueCalls
       /\ \E t \in Threads : ChangeDataStreamPeriod(t, DEFAULT_DATA_STREAM_PERIOD)
    \/ /\ calls < MaxQueueCalls
       /\ \E t \in Threads : \E device \in Handles : SetValue(t, device, 1)
    \/ \E t \in Threads : SerialWriteCheck(t)
    \/ \E t \in Threads : SerialWritePut(t)
    \/ \E t \in Threads : SetPeriod(t)
    \/ Backlogged /\ SendLoop
    \/ SendDrain
    \/ SendGetPriority
    \/ SendGetNormal
    \/ SendWrite
    \/ SendAckGet
    \/ SendAckRemaining
    \/ SendAckExpired(MaxQueueLoss)
    \/ SendAckEmpty(MaxQueueLoss)
    \/ SendRequeue
    \/ SendConfWait
    \/ ReceiveLine
    \/ ReceivePut
    \/ PeerReceive
    \/ losses < MaxQueueLoss /\ LoseLine

SpecQueue == InitQueue /\ [][NextQueue]_vars

\* the queue the sender took its command from
OwnQueue == IF priority THEN priority_send_queue ELSE send_queue

\* C4: once the deadline has passed without a matching echo the sender
\* re-enqueues the command on the queue it took it from; the put is never
\* held up, so the command is written again later.
RequeueNeverBlocked ==
    send_pc = "requeue" =>
        ~Full(OwnQueue, IF priority THEN PRIORITY_MAXSIZE ELSE SEND_MAXSIZE)

\* C7: a caller that enqueues on a full queue gets an error and is never left
\* waiting in the put, also when another caller or the sender's re-enqueue
\* took the last free slot.
EnqueueNeverBlocks ==
    \A t \in Threads : call_pc[t] = "write_put" => ~QueueFull(call_op[t].prio)

\* ------------------------------------------------------------------------
\* SpecPrio: a caller thread enqueues normal commands (set_value) and urgent
\* ones (change_data_stream_period) in any order, each with a value of its own,
\* while the sender runs and an answer is lost or late; enq_log and sent_log
\* keep the order of the enqueues and of the first transmissions.

InitPrio == Connected(<<"a">>, <<>>, <<>>, <<>>, TRUE)

NextPrio ==
    \/ /\ calls < MaxPrioCalls
       /\ ChangeDataStreamPeriod("t1", calls + 1)
    \/ /\ calls < MaxPrioCalls
       /\ \E device \in Handles : SetValue("t1", device, calls + 1)
    \/ SerialWriteCheck("t1")
    \/ SerialWritePut("t1")
    \/ SetPeriod("t1")
    \/ Sender(MaxPrioLoss)
    \/ ReceiveLine
    \/ ReceivePut
    \/ PeerReceive
    \/ losses < MaxPrioLoss /\ LoseLine

SpecPrio == InitPrio /\ [][NextPrio]_vars

\* set_value alone enqueues with priority=False (line 94)
Urgent(c) == c.verb # "c"

\* the command was first transmitted before the i-th first transmission
SentBefore(c, i) == \E j \in 1..(i - 1) : sent_log[j].cmd = c

\* the positions of enq_log that hold urgent commands
UrgentEnqueues == {k \in 1..Len(enq_log) : Urgent(enq_log[k])}

\* the normal command was enqueued no later than the first urgent command
BeforeFirstUrgent(c) ==
    \E k \in 1..Len(enq_log) :
        /\ enq_log[k] = c
        /\ UrgentEnqueues # {}
        /\ \A u \in UrgentEnqueues : k < u

\* C5: every urgent command is transmitted before any normal command that was
\* enqueued no later than the first urgent command.
PriorityOrdering ==
    \A i \in 1..Len(sent_log) :
        (~sent_log[i].priority /\ BeforeFirstUrgent(sent_log[i].cmd)) =>
            \A u \in UrgentEnqueues : SentBefore(enq_log[u], i)

\* C5, corrected: every urgent command that was enqueued before the sender
\* looked at the urgent queue in the iteration that takes a normal command is
\* transmitted before that normal command.
PriorityAtCheck ==
    \A i \in 1..Len(sent_log) :
        ~sent_log[i].priority =>
            \A u \in UrgentEnqueues : u <= sent_log[i].seen => SentBefore(enq_log[u], i)

\* C5 witness: a normal command was enqueued first, an urgent one after it, and
\* the urgent one was transmitted first
PriorityAtCheckWitness ==
    /\ Len(enq_log) >= 2
    /\ ~Urgent(enq_log[1])
    /\ Urgent(enq_log[2])
    /\ Len(sent_log) >= 2
    /\ sent_log[1].cmd = enq_log[2]
    /\ sent_log[2].cmd = enq_log[1]

\* ------------------------------------------------------------------------
\* SpecRec: a caller thread starts and stops recordings while the peer streams
\* rows for the one registered device; data_stream_period is None or set.

InitRec ==
    \E period \in {<<>>, <<DEFAULT_DATA_STREAM_PERIOD>>} :
        Connected(<<"a">>, <<>>, <<>>, period, FALSE)

NextRec ==
    \/ calls < MaxRecCalls /\ StartRecording("t1")
    \/ calls < MaxRecCalls /\ StopRecording("t1")
    \/ RecStopSet("t1")
    \/ RecJoin("t1")
    \/ RecStart("t1")
    \/ \E r \in Recorders : RecOpen(r)
    \/ \E r \in Recorders : RecLoop(r)
    \/ \E r \in Recorders : RecGet(r)
    \/ \E r \in Recorders : RecGetEmpty(r)
    \/ \E r \in Recorders : RecDrain(r)
    \/ \E r \in Recorders : RecDrainGet(r)
    \/ now < MaxRows /\ PeerData(<<"a", "1">>, TRUE)
    \/ ReceiveLine

SpecRec == InitRec /\ [][NextRec]_vars

\* the row is in the sink of recorder r, after the header
InSink(row, r) == \E j \in 2..Len(rec_file[r]) : rec_file[r][j] = row

\* C8: when the sink of a recording is closed, every row that was in the
\* recording buffer when the stop of that recording was signalled has been
\* written to it.
RecordingDrained ==
    \A r \in Recorders :
        rec_pc[r] = "closed" =>
            \A i \in 1..Len(pending_at_stop[r]) : InSink(pending_at_stop[r][i], r)

\* ------------------------------------------------------------------------
\* SpecData: the peer streams telemetry lines of any tokens, terminated or
\* not, to a host with no, one or two devices, before and during a recording
\* (one recording: none is started while one is active).

Tokens == {"a", "b", "1"}

DataLists == UNION {[1..n -> Tokens] : n \in 0..MaxTokens}

InitData ==
    \E order \in {<<>>, <<"a">>, <<"a", "b">>} : Connected(order, <<>>, <<>>, <<>>, FALSE)

NextData ==
    \/ /\ calls < MaxRecCalls
       /\ ~Alive(thread_record_data)
       /\ StartRecording("t1")
    \/ RecStart("t1")
    \/ \E r \in Recorders : RecOpen(r)
    \/ \E r \in Recorders : RecLoop(r)
    \/ \E r \in Recorders : RecGet(r)
    \/ /\ now < MaxRows
       /\ wire_in = <<>>
       /\ \E toks \in DataLists, term \in BOOLEAN : PeerData(toks, term)
    \/ ReceiveLine

SpecData == InitData /\ [][NextData]_vars

\* the row does not have one name/value pair for each device
Mismatched(data_list) ==
    \/ Len(data_list) % 2 = 1
    \/ Len(data_list) \div 2 # Len(names_in_order)

\* the receiver reads a telemetry line whose row is mismatched
ReadsMismatched ==
    /\ recv_pc = "read"
    /\ wire_in # <<>>
    /\ wire_in' = Tail(wire_in)
    /\ Head(wire_in).tag = "Data"
    /\ Mismatched(Head(wire_in).body)

\* C6: a telemetry row whose number of name/value pairs differs from the
\* device count, or whose token count is odd, changes no device's value and
\* hands no row to the recorder.
RowDiscarded ==
    [][ReadsMismatched => UNCHANGED <<device_dict, recording_queue, rec_file>>]_vars

\* C6 witness: during a recording, with a value already set by an earlier
\* row, _update_data was called with a mismatched row
RowDiscardedWitness ==
    /\ thread_record_data # None
    /\ names_in_order # <<>>
    /\ Mismatched(datalist)
    /\ datalist # <<>>
    /\ \E k \in DOMAIN device_dict : device_dict[k].value # None
    /\ recording_queue # <<>>

\* ------------------------------------------------------------------------
\* SpecDisc: start_recording and disconnect, with and without a connection,
\* over a link that loses nothing and a peer that answers in time.

AllNames == <<"a", "b", "c", "d", "e", "f", "g", "h", "i", "j">>

InitDisc ==
    \/ \E n \in 0..MAX_DEVICES : Connected(SubSeq(AllNames, 1, n), <<>>, <<>>, <<>>, FALSE)
    \/ \E n \in 0..MaxIdleDevices : Unconnected(SubSeq(AllNames, 1, n))

NextDisc ==
    \/ calls < MaxDiscCalls /\ StartRecording("t1")
    \/ calls < MaxDiscCalls /\ Disconnect("t1")
    \/ RecStart("t1")
    \/ RecStopSet("t1")
    \/ RecJoin("t1")
    \/ \E r \in Recorders : RecOpen(r)
    \/ \E r \in Recorders : RecLoop(r)
    \/ \E r \in Recorders : RecGetEmpty(r)
    \/ \E r \in Recorders : RecDrain(r)
    \/ DiscPeriod("t1")
    \/ SetPeriod("t1")
    \/ DiscStream("t1")
    \/ DiscStreamOff("t1")
    \/ DiscRemove("t1")
    \/ RemoveDel("t1")
    \/ RemovePop("t1")
    \/ RemoveReindex("t1")
    \/ DiscUserMode("t1")
    \/ SerialWriteCheck("t1")
    \/ SerialWritePut("t1")
    \/ DiscWaitPriority("t1")
    \/ DiscWaitConf("t1")
    \/ DiscWaitNormal("t1")
    \/ StopReceiveSet("t1")
    \/ StopReceiveJoin("t1")
    \/ StopSendSet("t1")
    \/ StopSendJoin("t1")
    \/ DiscClose("t1")
    \/ SendLoop
    \/ SendDrain
    \/ SendGetPriority
    \/ SendGetNormal
    \/ SendWrite
    \/ SendAckGet
    \/ SendConfWaitInTime
    \/ PeerReceive
    \/ ReceiveLine
    \/ ReceiveExit

SpecDisc == InitDisc /\ [][NextDisc]_vars

\* the caller is inside disconnect or inside a function disconnect called
InDisconnect(t) ==
    LET at == {"dc_period", "dc_stream", "dc_stream_off", "dc_remove", "dc_usermode",
               "dc_wait_priority", "dc_wait_conf", "dc_wait_normal", "dc_stop_receive",
               "dc_join_receive", "dc_stop_send", "dc_join_send", "dc_close"}
    IN  \/ call_pc[t] \in at
        \/ call_pc[t] # "idle" /\ (call_op[t].after \in at \/ call_op[t].ret \in at)

\* the sender thread runs
SenderRuns == send_pc \notin {"none", "exited", "crashed"}

\* nothing registered, nothing enqueued, nothing held by the sender, both
\* workers ended
ShutDownClean ==
    /\ DOMAIN device_dict = {}
    /\ names_in_order = <<>>
    /\ priority_send_queue = <<>>
    /\ send_queue = <<>>
    /\ send_pc = "exited"
    /\ recv_pc = "exited"

\* C9: disconnect on an open connection with 0..MAX_DEVICES registered devices
\* does not raise, and at the step that closes the link the registry and both
\* send queues are empty, the sender holds no command, and both workers have
\* ended.
DisconnectCompletes ==
    [][/\ (InDisconnect("t1") /\ ser # None) => call_ret'["t1"] # "raised"
       /\ (DiscClose("t1") /\ ser # None) => ShutDownClean]_vars

\* C10: disconnect without a connection (no open link, no worker running)
\* returns: it is never at the wait for the urgent queue to empty (line 276)
\* with a command in that queue, which no thread would ever take.
IdleDisconnectReturns ==
    (/\ ser = None
     /\ ~SenderRuns
     /\ thread_send_serial = None
     /\ thread_receive_serial = None
     /\ call_pc["t1"] = "dc_wait_priority")
    => priority_send_queue = <<>>

\* C10: the calls and waits of disconnect that no connection backs: it has
\* enqueued "u 5000", "t 0" and "z 1" on a fresh module and waits at line 276
IdleDisconnectWaits ==
    /\ ser = None
    /\ ~SenderRuns
    /\ names_in_order = <<>>
    /\ call_pc["t1"] = "dc_wait_priority"
    /\ priority_send_queue =
           <<PeriodCmd(DEFAULT_DATA_STREAM_PERIOD), StreamCmd(0), UserModeCmd(1)>>

\* ------------------------------------------------------------------------
\* Claims about create_device, remove_device and set_value

\* the 's' command of name is still in the urgent queue, or the sender holds
\* it and has not taken a matching echo for it
CreatePending(name) ==
    \/ \E i \in 1..Len(priority_send_queue) :
           /\ priority_send_queue[i].verb = "s"
           /\ priority_send_queue[i].name = name
    \/ /\ send_pc \in {"write", "ack_get", "ack_deadline", "requeue"}
       /\ command.verb = "s"
       /\ command.name = name

\* C11: a device is in device_dict only once its 's' command has been
\* acknowledged by the peer at transmit level: no registered device's create
\* command is still enqueued or awaiting its echo.
CreateAfterAck == \A name \in DOMAIN device_dict : ~CreatePending(name)

\* SpecCap: two caller threads create and remove devices on a registry that
\* is one short of MAX_DEVICES or full, over a link that loses nothing.

CapNames == {"a", "x", "z"}

InitCap ==
    \E n \in {MAX_DEVICES - 1, MAX_DEVICES} :
        Connected(SubSeq(AllNames, 1, n), <<>>, <<>>, <<>>, FALSE)

NextCap ==
    \/ /\ calls < MaxCapCalls
       /\ \E t \in Threads, name \in CapNames : CreateDevice(t, "l", name, 9)
    \/ /\ calls < MaxCapCalls
       /\ \E t \in Threads, name \in CapNames \cap DOMAIN device_dict :
              RemoveDevice(t, name)
    \/ \E t \in Threads : SerialWriteCheck(t)
    \/ \E t \in Threads : SerialWritePut(t)
    \/ \E t \in Threads : InitIndex(t)
    \/ \E t \in Threads : InitAppend(t)
    \/ \E t \in Threads : CreateStore(t)
    \/ \E t \in Threads : RemoveDel(t)
    \/ \E t \in Threads : RemovePop(t)
    \/ \E t \in Threads : RemoveReindex(t)
    \/ SendLoop
    \/ SendDrain
    \/ SendGetPriority
    \/ SendGetNormal
    \/ SendWrite
    \/ SendAckGet
    \/ SendConfWait
    \/ ReceiveLine
    \/ PeerReceive

SpecCap == InitCap /\ [][NextCap]_vars

\* C12: a create_device call with a name that is registered, or with
\* MAX_DEVICES devices registered, raises, enqueues nothing and leaves the
\* registry as it was; the number of devices never exceeds MAX_DEVICES.
CreateRejected ==
    [][/\ \A t \in Threads, name \in CapNames :
            (/\ CreateDevice(t, "l", name, 9)
             /\ \/ name \in DOMAIN device_dict
                \/ Len(names_in_order) >= MAX_DEVICES)
            => /\ call_ret'[t] = "raised"
               /\ call_pc'[t] = "idle"
               /\ UNCHANGED <<reg, queues, wire_out>>
       /\ Len(names_in_order') <= MAX_DEVICES
       /\ Cardinality(DOMAIN device_dict') <= MAX_DEVICES]_vars

\* C12: a create_device call was rejected on a registry that an earlier call
\* had filled to MAX_DEVICES
CreateRejectedAtCapacity ==
    /\ calls = 2
    /\ \E t \in Threads : call_ret[t] = "raised"
    /\ CallersIdle
    /\ Len(names_in_order) = MAX_DEVICES
    /\ created = SubSeq(AllNames, 1, MAX_DEVICES - 1) \o <<"z">>

\* ------------------------------------------------------------------------
\* SpecBusy: thread t1 creates and removes devices while thread t2 starts and
\* stops recordings, over a link that loses nothing; no telemetry arrives.

InitBusy ==
    \E period \in {<<>>, <<DEFAULT_DATA_STREAM_PERIOD>>} :
        Connected(<<"a">>, <<>>, <<>>, period, FALSE)

NextBusy ==
    \/ /\ calls < MaxBusyCalls
       /\ \E name \in Names : CreateDevice("t1", "l", name, 9)
    \/ /\ calls < MaxBusyCalls
       /\ \E name \in Names : RemoveDevice("t1", name)
    \/ calls < MaxBusyCalls /\ StartRecording("t2")
    \/ calls < MaxBusyCalls /\ StopRecording("t2")
    \/ SerialWriteCheck("t1")
    \/ SerialWritePut("t1")
    \/ InitIndex("t1")
    \/ InitAppend("t1")
    \/ CreateStore("t1")
    \/ RemoveDel("t1")
    \/ RemovePop("t1")
    \/ RemoveReindex("t1")
    \/ RecStopSet("t2")
    \/ RecJoin("t2")
    \/ RecStart("t2")
    \/ \E r \in Recorders : RecOpen(r)
    \/ \E r \in Recorders : RecLoop(r)
    \/ \E r \in Recorders : RecGetEmpty(r)
    \/ \E r \in Recorders : RecDrain(r)
    \/ SendLoop
    \/ SendDrain
    \/ SendGetPriority
    \/ SendGetNormal
    \/ SendWrite
    \/ SendAckGet
    \/ SendConfWait
    \/ ReceiveLine
    \/ PeerReceive

SpecBusy == InitBusy /\ [][NextBusy]_vars

\* the header of the active recording, once written, names the devices of
\* names_in_order in their order
HeaderIsOrder ==
    \A r \in Recorders :
        (thread_record_data = r /\ rec_file[r] # <<>>)
        => Head(rec_file[r]) = <<TimeText>> \o names_in_order

\* C13: a create_device or remove_device call made while a recording is
\* active raises, enqueues nothing and leaves the registry as it was, and
\* at every moment of a recording names_in_order is what the header holds.
RegistryFixedWhileRecording ==
    [][/\ \A name \in Names :
            (/\ thread_record_data # None
             /\ CreateDevice("t1", "l", name, 9) \/ RemoveDevice("t1", name))
            => /\ call_ret'["t1"] = "raised"
               /\ call_pc'["t1"] = "idle"
               /\ UNCHANGED <<reg, queues>>
       /\ HeaderIsOrder']_vars

\* ------------------------------------------------------------------------
\* SpecSet: one caller thread that holds the Device instances of "a" and "b"
\* removes and creates devices and sets values, one call at a time, over a
\* link that loses nothing.

InitSet == Connected(<<"a", "b">>, <<>>, <<>>, <<>>, FALSE)

NextSet ==
    \/ /\ calls < MaxSetCalls
       /\ \E name \in Names : CreateDevice("t1", "l", name, 9)
    \/ /\ calls < MaxSetCalls
       /\ \E name \in Names : RemoveDevice("t1", name)
    \/ /\ calls < MaxSetCalls
       /\ \E device \in Handles : SetValue("t1", device, 1)
    \/ SerialWriteCheck("t1")
    \/ SerialWritePut("t1")
    \/ InitIndex("t1")
    \/ InitAppend("t1")
    \/ CreateStore("t1")
    \/ RemoveDel("t1")
    \/ RemovePop("t1")
    \/ RemoveReindex("t1")
    \/ SendLoop
    \/ SendDrain
    \/ SendGetPriority
    \/ SendGetNormal
    \/ SendWrite
    \/ SendAckGet
    \/ SendConfWait
    \/ ReceiveLine
    \/ PeerReceive

SpecSet == InitSet /\ [][NextSet]_vars

\* C14: set_value on a device that is not in the registry raises and enqueues
\* nothing, and every 'c' command that is enqueued carries the index that
\* its device, registered at that moment, has.
SetValueChecked ==
    [][\A t \in Threads :
        /\ \A device \in Handles :
               (SetValue(t, device, 1) /\ device.name \notin DOMAIN device_dict)
               => call_ret'[t] = "raised" /\ call_pc'[t] = "idle"
        /\ (SerialWritePut(t) /\ call_op[t].cmd.verb = "c")
           => /\ call_op[t].name \in DOMAIN device_dict
              /\ device_dict[call_op[t].name].index = call_op[t].cmd.num]_vars

\* C14: a 'c' command is in the normal queue for a device that was removed
\* before the set_value call, under the index another device has since
SetValueOnRemoved ==
    /\ calls = 2
    /\ CallersIdle
    /\ "a" \notin DOMAIN device_dict
    /\ "b" \in DOMAIN device_dict
    /\ device_dict["b"].index = 0
    /\ send_queue = <<SetCmd(0, 1)>>
    /\ \E device \in detached : device.name = "a" /\ device.index = 0

\* ------------------------------------------------------------------------
\* SpecVal: one caller thread creates and removes devices, sets values and
\* changes the stream period, one call at a time, while the peer streams
\* rows for two devices and for one, over a link that loses nothing.

InitVal == Connected(<<"a", "b">>, <<>>, <<>>, <<>>, FALSE)

NextVal ==
    \/ /\ calls < MaxValCalls
       /\ \E name \in Names : CreateDevice("t1", "l", name, 9)
    \/ /\ calls < MaxValCalls
       /\ \E name \in Names : RemoveDevice("t1", name)
    \/ /\ calls < MaxValCalls
       /\ \E device \in Handles : SetValue("t1", device, 2)
    \/ /\ calls < MaxValCalls
       /\ ChangeDataStreamPeriod("t1", 1)
    \/ SerialWriteCheck("t1")
    \/ SerialWritePut("t1")
    \/ InitIndex("t1")
    \/ InitAppend("t1")
    \/ CreateStore("t1")
    \/ RemoveDel("t1")
    \/ RemovePop("t1")
    \/ RemoveReindex("t1")
    \/ SetPeriod("t1")
    \/ SendLoop
    \/ SendDrain
    \/ SendGetPriority
    \/ SendGetNormal
    \/ SendWrite
    \/ SendAckGet
    \/ SendConfWait
    \/ ReceiveLine
    \/ PeerReceive
    \/ wire_in = <<>> /\ PeerData(<<"a", "1", "b", "1">>, TRUE)
    \/ wire_in = <<>> /\ PeerData(<<"b", "1">>, TRUE)

SpecVal == InitVal /\ [][NextVal]_vars

\* the receiver reads a telemetry line
ReadsData ==
    /\ recv_pc = "read"
    /\ wire_in # <<>>
    /\ wire_in' = Tail(wire_in)
    /\ Head(wire_in).tag = "Data"

\* C15: the value of a registered device changes only in a step in which the
\* receiver applies a telemetry row: no step of set_value, create_device,
\* remove_device or change_data_stream_period changes it.
ValueOnlyByTelemetry ==
    [][\A name \in DOMAIN device_dict \cap DOMAIN device_dict' :
           device_dict'[name].value # device_dict[name].value => ReadsData]_vars

\* C15 witness: 'b' holds a value a row gave it, has been reindexed by the
\* removal of 'a', and a set_value for it has been enqueued
ValueOnlyByTelemetryWitness ==
    /\ CallersIdle
    /\ DOMAIN device_dict = {"b"}
    /\ device_dict["b"].index = 0
    /\ device_dict["b"].value = "1"
    /\ send_queue = <<SetCmd(0, 2)>>

\* ------------------------------------------------------------------------
\* Claims about start_recording

\* C16: a start_recording call made while a recording is active raises, and
\* no step of a start_recording call signals the active recorder to stop or
\* replaces it.
StartWhileRecordingBusy ==
    [][/\ (thread_record_data # None /\ StartRecording("t1"))
          => call_ret'["t1"] = "raised" /\ call_pc'["t1"] = "idle"
       /\ (thread_record_data # None /\ call_op["t1"].op = "start_recording")
          => UNCHANGED <<thread_record_data, stop_record_event>>]_vars

\* C16: a start_recording call has returned normally with another recorder
\* than the one that was recording when it was made
RecorderReplaced ==
    /\ calls = 2
    /\ CallersIdle
    /\ call_ret["t1"] = "ok"
    /\ thread_record_data = "rec2"
    /\ rec_pc["rec1"] # "none"

\* ------------------------------------------------------------------------
\* SpecLive: the urgent queue holds nine commands; one caller thread makes
\* change_data_stream_period calls; the link loses nothing and the peer
\* echoes every frame, an echo arriving after the send deadline at most
\* MaxLiveLate times.  The sender, the receiver and the peer are scheduled
\* fairly; the caller is under no obligation.

InitLive ==
    Connected(<<>>, Fill(PeriodCmd(DEFAULT_DATA_STREAM_PERIOD), PRIORITY_MAXSIZE - 1),
              <<>>, <<DEFAULT_DATA_STREAM_PERIOD>>, FALSE)

NextLive ==
    \/ /\ calls < MaxLiveCalls
       /\ ChangeDataStreamPeriod("t1", DEFAULT_DATA_STREAM_PERIOD)
    \/ SerialWriteCheck("t1")
    \/ SerialWritePut("t1")
    \/ SetPeriod("t1")
    \/ SendLoop
    \/ SendDrain
    \/ SendGetPriority
    \/ SendGetNormal
    \/ SendWrite
    \/ SendAckGet
    \/ SendAckEmpty(MaxLiveLate)
    \/ SendRequeue
    \/ SendConfWait
    \/ ReceiveLine
    \/ ReceivePut
    \/ PeerReceive

SpecLive ==
    /\ InitLive
    /\ [][NextLive]_vars
    /\ WF_vars(Sender(MaxLiveLate))
    /\ WF_vars(Receiver)
    /\ WF_vars(PeerReceive)

\* both queues are empty and the sender holds no command
AllRetired ==
    /\ priority_send_queue = <<>>
    /\ send_queue = <<>>
    /\ send_pc \notin {"write", "ack_get", "ack_deadline", "requeue"}

\* C17: on a link that delivers every frame and a peer that echoes every
\* frame, with the sender and the receiver scheduled fairly, every command
\* accepted into a queue is eventually transmitted and retired, whatever the
\* callers enqueue: again and again nothing is left to send.
EveryCommandRetired == []<>AllRetired

\* C18: the sender does not wait forever in the re-enqueue of a command that
\* timed out, whatever callers have put on the queue meanwhile: from the
\* re-enqueue it always returns to the top of its loop.
SenderReturnsToLoop == (send_pc = "requeue") ~> (send_pc = "loop")


\* ------------------------------------------------------------------------
\* Sessions: a disconnect and a connect after it, over a link that loses a
\* frame.

InitConn == InitConnected

NextConn ==
    \/ calls < MaxConnCalls /\ Disconnect("t1")
    \/ calls < MaxConnCalls /\ Connect("t1")
    \/ DiscPeriod("t1")
    \/ SetPeriod("t1")
    \/ DiscStream("t1")
    \/ DiscStreamOff("t1")
    \/ DiscRemove("t1")
    \/ DiscUserMode("t1")
    \/ SerialWriteCheck("t1")
    \/ SerialWritePut("t1")
    \/ DiscWaitPriority("t1")
    \/ DiscWaitConf("t1")
    \/ DiscWaitNormal("t1")
    \/ StopReceiveSet("t1")
    \/ StopReceiveJoin("t1")
    \/ StopSendSet("t1")
    \/ StopSendJoin("t1")
    \/ DiscClose("t1")
    \/ ConnStartSend("t1")
    \/ ConnStartReceive("t1")
    \/ ConnHandshake("t1")
    \/ ConnWaitConf("t1")
    \/ ConnStreamOn("t1")
    \/ SendLoop
    \/ SendDrain
    \/ SendGetPriority
    \/ SendGetNormal
    \/ SendWrite
    \/ SendAckGet
    \/ SendAckEmpty(MaxConnLoss)
    \/ SendRequeue
    \/ SendConfWaitInTime
    \/ ~ConfOnItsWay /\ SendConfWait
    \/ SenderSwitch
    \/ ReceiveLine
    \/ ReceiveExit
    \/ PeerReceive
    \/ losses < MaxConnLoss /\ LoseFrame

SpecConn == InitConn /\ [][NextConn]_vars

\* a _send_serial thread has written a frame and waits for its echo
InFlight(s) == s.pc \in {"ack_get", "ack_deadline"}

\* C19: at any time at most one transmitted command awaits its
\* acknowledgment: two _send_serial threads never both wait for the echo of
\* a frame they wrote, also after a disconnect whose join timed out and a
\* connect that started a new thread.
SingleInFlight == ~(InFlight(ThisSender) /\ InFlight(other_sender))


\* ------------------------------------------------------------------------
\* The ack wait in time: now counts ticks, answers arrive when they arrive.

\* time.time() advances; it does not while the sender has something to do at
\* once: an echo to take from the ack slot, a get that has run out, or the
\* deadline to look at
Tick(max) ==
    /\ now < max
    /\ ~(send_pc = "ack_get" /\ (recv_queue # <<>> \/ now >= get_until))
    /\ send_pc # "ack_deadline"
    /\ now' = now + 1
    /\ UNCHANGED <<reg, queues, recv_queue, conf_event, sender, receiver, workers,
                   rec_pc, rec_file, stop_record_event, thread_record_data,
                   recording_queue, session, callers, link, peer_devices, history>>

InitAck == Connected(<<>>, <<PeriodCmd(1), PeriodCmd(2)>>, <<>>, <<>>, FALSE)

NextAck ==
    \/ SendLoop
    \/ SendDrain
    \/ SendGetPriority
    \/ SendGetNormal
    \/ SendWrite
    \/ SendAckGet
    \/ now < deadline /\ SendAckRemaining
    \/ now >= deadline /\ SendAckExpired(MaxAckLate)
    \/ now >= get_until /\ SendAckEmpty(MaxAckLate)
    \/ SendRequeue
    \/ SendConfWait
    \/ ReceiveLine
    \/ ReceivePut
    \/ PeerReceive
    \/ losses < MaxAckLate /\ GarbleEcho
    \/ Tick(MaxAckTicks)

SpecAck == InitAck /\ [][NextAck]_vars

\* C20: the ack wait respects the send deadline: a step that retires the
\* command on a matching echo is taken no later than deadline, and the step
\* that gives the command up for re-enqueueing is taken at deadline, also
\* when a mismatched echo was taken earlier in the same wait.
AckWaitRespectsDeadline ==
    [][/\ (send_pc = "ack_get" /\ send_pc' = "conf_wait") => now <= deadline
       /\ (send_pc \in {"ack_get", "ack_deadline"} /\ send_pc' = "requeue")
              => now = deadline]_vars

\* the sender is not at a point where it takes an entry from the ack slot: it
\* waits in the put of its re-enqueue, waits out the confirmation of an urgent
\* command, or has ended
SenderAway ==
    \/ send_pc = "requeue" /\ QueueFull(priority)
    \/ send_pc = "conf_wait" /\ priority /\ ~conf_event
    \/ send_pc \in {"exited", "crashed"}

\* C21: the receiver never blocks on anything other than the link read: it
\* is never held in the hand-over of an echo to the full ack slot while the
\* sender is away from the slot, so the lines that follow are processed.
ReceiverNeverStalls == ~(recv_pc = "put" /\ Full(recv_queue, RECV_MAXSIZE) /\ SenderAway)

\* the receiver is held at the ack slot with the confirmation of the
\* sender's urgent command behind it on the wire
ConfBehindStalledReceiver ==
    /\ recv_pc = "put"
    /\ Full(recv_queue, RECV_MAXSIZE)
    /\ send_pc = "conf_wait" /\ priority /\ ~conf_event
    /\ wire_in # <<>>
    /\ Head(wire_in).tag = "Conf"

\* the peer has acted on the create command c: its device array holds the name
PeerCreated(c) == \E i \in 1..Len(peer_devices) : peer_devices[i] = c.name

\* C22: an urgent command is treated as confirmed only by the Conf: line the
\* peer sent in response to it: when the confirmation wait of a create
\* command has ended with confirmed set, the peer has received and applied
\* that command.
ConfirmedByOwnConf ==
    (send_pc = "loop" /\ priority /\ confirmed /\ command.verb = "s")
        => PeerCreated(command)


\* ------------------------------------------------------------------------
\* A peer that refuses a create command: it echoes the frame and answers
\* with an Errr: line instead of a Conf: line.

PeerReject ==
    /\ wire_out # <<>>
    /\ Head(wire_out).cmd.verb = "s"
    /\ Head(wire_out).cksum # <<>>
    /\ wire_out' = Tail(wire_out)
    /\ wire_in' = Fit(wire_in \o <<Line("Recv", Head(wire_out).cksum \o <<";">>, TRUE),
                                   Line("Errr", <<>>, TRUE)>>, MaxWireIn)
    /\ UNCHANGED <<reg, queues, recv_queue, conf_event, sender, receiver, workers,
                   recorder, session, callers, peer_devices, history>>

InitErr == InitConnected

NextErr ==
    \/ /\ calls < MaxErrCalls
       /\ \E name \in Names : CreateDevice("t1", "l", name, 9)
    \/ SerialWriteCheck("t1")
    \/ SerialWritePut("t1")
    \/ InitIndex("t1")
    \/ InitAppend("t1")
    \/ CreateStore("t1")
    \/ SendLoop
    \/ SendDrain
    \/ SendGetPriority
    \/ SendGetNormal
    \/ SendWrite
    \/ SendAckGet
    \/ SendConfWaitInTime
    \/ ~ConfOnItsWay /\ SendConfWait
    \/ ReceiveLine
    \/ PeerReceive
    \/ PeerReject

SpecErr == InitErr /\ [][NextErr]_vars

\* the receiver reads an Errr: line
ReadsErrr ==
    /\ recv_pc = "read"
    /\ wire_in # <<>>
    /\ wire_in' = Tail(wire_in)
    /\ Head(wire_in).tag = "Errr"

\* the sender waits for the confirmation of an urgent command
AwaitsConf == send_pc = "conf_wait" /\ priority /\ ~conf_event

\* C23: an Errr: line signals the pending wait of an urgent command: the
\* step in which the receiver reads an Errr: line while the sender waits for
\* the confirmation ends that wait at once (the sender is no longer held at
\* it afterwards), without the confirmation timeout having to pass.
ErrrEndsWait == [][(ReadsErrr /\ AwaitsConf) => ~AwaitsConf']_vars

\* the sender still waits for the confirmation of a create command that the
\* peer has refused, with the Errr: line read and nothing left on the wires
ErrrWaitedOut ==
    /\ AwaitsConf
    /\ command.verb = "s"
    /\ ~PeerCreated(command)
    /\ wire_out = <<>>
    /\ wire_in = <<>>


\* C24: registry mutations are single-writer: under any interleaving of
\* create_device and remove_device calls of two caller threads no name is
\* twice in names_in_order, no two registered devices share an index, the
\* number of devices never exceeds MAX_DEVICES, and whenever no call is in
\* progress the keys of device_dict are the entries of names_in_order and the
\* device named names_in_order[i] has index i.
SingleWriterRegistry ==
    LET count == Len(names_in_order) IN
    /\ \A i, j \in 1..count : i # j => names_in_order[i] # names_in_order[j]
    /\ \A k, l \in DOMAIN device_dict :
           k # l => device_dict[k].index # device_dict[l].index
    /\ count <= MAX_DEVICES
    /\ Cardinality(DOMAIN device_dict) <= MAX_DEVICES
    /\ CallersIdle =>
           /\ DOMAIN device_dict = {names_in_order[i] : i \in 1..count}
           /\ \A i \in 1..count : device_dict[names_in_order[i]].index = i - 1

\* both calls have returned normally and left a registry in which the entry
\* at some position of names_in_order does not have that position as index
RegistryTornAtRest ==
    /\ CallersIdle
    /\ \A t \in Threads : call_ret[t] = "ok"
    /\ \E i \in 1..Len(names_in_order) :
           /\ names_in_order[i] \in DOMAIN device_dict
           /\ device_dict[names_in_order[i]].index # i - 1


\* device_dict, names_in_order and the devices' indices agree
RegistryAgrees ==
    /\ DOMAIN device_dict = {names_in_order[i] : i \in 1..Len(names_in_order)}
    /\ \A i \in 1..Len(names_in_order) :
           names_in_order[i] \in DOMAIN device_dict
               => device_dict[names_in_order[i]].index = i - 1

\* C25: remove_device's deletion of the entry, removal from the order and
\* reindexing are atomic with respect to telemetry dispatch: whenever the
\* receiver hands a telemetry row to _update_data while a remove_device call
\* is in progress, device_dict, names_in_order and the indices agree.
RemoveAtomicForTelemetry ==
    [][(/\ ReadsData
        /\ Head(wire_in).term
        /\ \E t \in Threads : call_op[t].op = "remove")
       => RegistryAgrees]_vars


\* ------------------------------------------------------------------------
\* Recordings and registry changes made by one caller, one call at a time,
\* while the peer streams a row of its device array.

\* the tokens of the telemetry row the peer sends for its devices
RECURSIVE PeerRow(_)
PeerRow(devices) ==
    IF devices = <<>> THEN <<>>
    ELSE <<Head(devices), "1">> \o PeerRow(Tail(devices))

InitRows == Connected(<<"a">>, <<>>, <<>>, <<DEFAULT_DATA_STREAM_PERIOD>>, FALSE)

NextRows ==
    \/ /\ calls < MaxRowCalls
       /\ CreateDevice("t1", "l", "b", 9)
    \/ calls < MaxRowCalls /\ StartRecording("t1")
    \/ calls < MaxRowCalls /\ StopRecording("t1")
    \/ SerialWriteCheck("t1")
    \/ SerialWritePut("t1")
    \/ InitIndex("t1")
    \/ InitAppend("t1")
    \/ CreateStore("t1")
    \/ RecStopSet("t1")
    \/ RecJoin("t1")
    \/ RecStart("t1")
    \/ \E r \in Recorders : RecOpen(r)
    \/ \E r \in Recorders : RecLoop(r)
    \/ \E r \in Recorders : RecGet(r)
    \/ \E r \in Recorders : RecGetEmpty(r)
    \/ \E r \in Recorders : RecDrain(r)
    \/ \E r \in Recorders : RecDrainGet(r)
    \/ SendLoop
    \/ SendDrain
    \/ SendGetPriority
    \/ SendGetNormal
    \/ SendWrite
    \/ SendAckGet
    \/ SendConfWaitInTime
    \/ ReceiveLine
    \/ PeerReceive
    \/ now < MaxRows /\ wire_in = <<>> /\ PeerData(PeerRow(peer_devices), TRUE)

SpecRows == InitRows /\ [][NextRows]_vars

\* C26: every data row in a recording's sink has one timestamp and as many
\* values as the header of that recording has device names: each row is as
\* long as the header row, across start_recording, stop_recording and
\* create_device calls made one at a time.
RowsFitHeader ==
    \A r \in Recorders :
        \A i \in 2..Len(rec_file[r]) : Len(rec_file[r][i]) = Len(rec_file[r][1])

\* a row captured during the first recording is in the sink of the second,
\* whose header has one name more
LeftoverRowInLaterRecording ==
    /\ Len(rec_file["rec1"]) = 1
    /\ rec_pc["rec1"] = "closed"
    /\ Len(rec_file["rec2"]) >= 2
    /\ Len(rec_file["rec2"][1]) = 3
    /\ Len(rec_file["rec2"][2]) = 2


=============================================================================
